---- MODULE Spec2Model ----
(***************************************************************************)
(* Model of the goa middlewares.  Package cors: Middleware,                *)
(* MountPreflightController, FillHeaders, OriginAllowed, PathMatches,      *)
(* RequestResource and PathResource.  Package middleware: RequestID,       *)
(* LogRequest, Recover and RequireHeader.  Package jwt: the table of the   *)
(* signing methods, GetToken and Middleware.                               *)
(*                                                                         *)
(* Go strings are sequences of one-character strings, so that ToUpper,     *)
(* Split, TrimSpace, Join, HasPrefix and HasSuffix are computed and not    *)
(* assumed.  An http.Header is a function from header names to the list    *)
(* of values of that header; the empty list is an absent header.           *)
(***************************************************************************)
EXTENDS Integers, Sequences, FiniteSets, TLC

VARIABLES spec, uses, mux, phase, req, rw, chain, runs, stack, served, ret

\* the requests that are inside the CORS handler at the same time
VARIABLES inflight

\* package middleware: the prefix and the counter of the request ids, the
\* middlewares the service mounts (outermost first), the arguments of
\* RequireHeader, the goa.Context of the request each goroutine serves, and
\* the ids RequestID has created so far
VARIABLES reqPrefix, reqID, mws, gate, ctxs, issued

\* package jwt: the table of the signing methods, the Specification of the
\* middleware, the request it handles and what it has done with it
VARIABLES signingmethods, jspec, jreq, jres

\* the variables of one service serving one request at a time
serviceVars == <<uses, mux, phase, req, rw, chain, runs, stack, served, ret>>
\* the variables the actions of that service leave alone
others == <<inflight, reqPrefix, reqID, mws, gate, ctxs, issued,
            signingmethods, jspec, jreq, jres>>
\* the variables of package jwt
jwtVars == <<signingmethods, jspec, jreq, jres>>
\* the variables of package middleware
mwVars == <<reqPrefix, reqID, mws, gate, ctxs, issued>>

vars == <<spec, uses, mux, phase, req, rw, chain, runs, stack, served, ret, inflight,
          reqPrefix, reqID, mws, gate, ctxs, issued,
          signingmethods, jspec, jreq, jres>>

(***************************************************************************)
(* Bounds of the model.                                                    *)
(***************************************************************************)
\* number of times the service mounts the CORS middleware (service.Use)
MaxUse == 1
\* number of requests that are inside the CORS handler at the same time
MaxInflight == 2
\* number of request ids the RequestID middleware creates
MaxReqID == 2

(***************************************************************************)
(* Strings.                                                                *)
(***************************************************************************)
EmptyStr == <<>>

LowerLetters == <<"a","b","c","d","e","f","g","h","i","j","k","l","m",
                  "n","o","p","q","r","s","t","u","v","w","x","y","z">>
UpperLetters == <<"A","B","C","D","E","F","G","H","I","J","K","L","M",
                  "N","O","P","Q","R","S","T","U","V","W","X","Y","Z">>

ToUpperChar(c) ==
    IF \E i \in 1..Len(LowerLetters) : LowerLetters[i] = c
    THEN UpperLetters[CHOOSE i \in 1..Len(LowerLetters) : LowerLetters[i] = c]
    ELSE c

ToLowerChar(c) ==
    IF \E i \in 1..Len(UpperLetters) : UpperLetters[i] = c
    THEN LowerLetters[CHOOSE i \in 1..Len(UpperLetters) : UpperLetters[i] = c]
    ELSE c

\* strings.ToUpper
ToUpper(s) == [i \in 1..Len(s) |-> ToUpperChar(s[i])]

\* strings.ToLower
ToLower(s) == [i \in 1..Len(s) |-> ToLowerChar(s[i])]

IsSpace(c) == c \in {" ", "\t", "\n", "\r"}

RECURSIVE TrimLeft(_)
TrimLeft(s) == IF Len(s) > 0 /\ IsSpace(Head(s)) THEN TrimLeft(Tail(s)) ELSE s

RECURSIVE TrimRight(_)
TrimRight(s) ==
    IF Len(s) > 0 /\ IsSpace(s[Len(s)]) THEN TrimRight(SubSeq(s, 1, Len(s) - 1)) ELSE s

\* strings.TrimSpace
TrimSpace(s) == TrimRight(TrimLeft(s))

\* strings.Split(s, sep) for a one-character separator: Split("", ",") is [""]
RECURSIVE SplitFrom(_, _, _)
SplitFrom(s, sep, cur) ==
    IF Len(s) = 0 THEN <<cur>>
    ELSE IF Head(s) = sep THEN <<cur>> \o SplitFrom(Tail(s), sep, EmptyStr)
    ELSE SplitFrom(Tail(s), sep, Append(cur, Head(s)))

Split(s, sep) == SplitFrom(s, sep, EmptyStr)

\* strings.Join
RECURSIVE Join(_, _)
Join(a, sep) ==
    IF Len(a) = 0 THEN EmptyStr
    ELSE IF Len(a) = 1 THEN a[1]
    ELSE a[1] \o sep \o Join(Tail(a), sep)

\* strings.HasPrefix
HasPrefix(s, prefix) ==
    Len(s) >= Len(prefix) /\ SubSeq(s, 1, Len(prefix)) = prefix

\* strings.HasSuffix
HasSuffix(s, suffix) ==
    Len(s) >= Len(suffix) /\ SubSeq(s, Len(s) - Len(suffix) + 1, Len(s)) = suffix

Digits == <<"0","1","2","3","4","5","6","7","8","9">>

\* strconv.Itoa for the non-negative values FillHeaders converts
RECURSIVE Itoa(_)
Itoa(n) == IF n < 10 THEN <<Digits[n + 1]>> ELSE Itoa(n \div 10) \o <<Digits[(n % 10) + 1]>>

CommaSpace == <<",", " ">>
Star == <<"*">>

(***************************************************************************)
(* Header names.                                                           *)
(***************************************************************************)
acAllowCredentials == "Access-Control-Allow-Credentials"
acAllowHeaders     == "Access-Control-Allow-Headers"
acAllowMethods     == "Access-Control-Allow-Methods"
acAllowOrigin      == "Access-Control-Allow-Origin"
acExposeHeaders    == "Access-Control-Expose-Headers"
acMaxAge           == "Access-Control-Max-Age"
acRequestMethod    == "Access-Control-Request-Method"
acRequestHeaders   == "Access-Control-Request-Headers"

ACResponseKeys == {acAllowCredentials, acAllowHeaders, acAllowMethods,
                   acAllowOrigin, acExposeHeaders, acMaxAge}

ReqKeys == {"Origin", "X-Origin", acRequestMethod, acRequestHeaders, "Vary"}
RespKeys == ACResponseKeys \cup {"Vary", "Content-Type"}

\* http.Header.Get: the first value of the header, "" when there is none
Get(h, k) == IF Len(h[k]) = 0 THEN EmptyStr ELSE h[k][1]

\* a variant that adds v to the values of the header, as http.Header.Add does
SetAdding(h, k, v) == [h EXCEPT ![k] = Append(@, v)]

\* http.Header.Set: replaces the values of the header by the single value v
Set(h, k, v) == [h EXCEPT ![k] = <<v>>]

(***************************************************************************)
(* String values used by the rules and the requests.                       *)
(***************************************************************************)
mGET     == <<"G","E","T">>
mGetLow  == <<"g","e","t">>
mPOST    == <<"P","O","S","T">>
mPUT     == <<"P","U","T">>
mOPTIONS == <<"O","P","T","I","O","N","S">>

oA == <<"h","a">>
oB == <<"h","b">>

pRoot == <<"/">>
pA    == <<"/","a">>
pASub == <<"/","a","/","b">>
pC    == <<"/","c">>

hFoo    == <<"f","o","o">>
hFooCap == <<"F","o","o">>
hBar    == <<"b","a","r">>
hFooBar == hFoo \o CommaSpace \o hBar

vOrigin == <<"O","r","i","g","i","n">>
vAccept == <<"A","c","c","e","p","t">>
vCookie == <<"C","o","o","k","i","e">>

sTrue      == <<"t","r","u","e">>
sTextPlain == <<"t","e","x","t","/","p","l","a","i","n">>
sCors      == <<"*","c","o","r","s">>
sSlashCors == <<"/">> \o sCors

(***************************************************************************)
(* ResourceDefinition and Specification.  Origin is "" when the resource   *)
(* is defined by OriginRegexp; a regular expression is the set of origins  *)
(* it matches.  Check is the optional guard: a predicate of the request    *)
(* context, here of the request method.                                    *)
(***************************************************************************)
NoCheck == [isNil |-> TRUE, accepts |-> {}]
CheckMethods(ms) == [isNil |-> FALSE, accepts |-> ms]

\* the resource of the package's tests: one origin, one path, GET, header foo
ResExact ==
    [Origin |-> oA, OriginRegexp |-> {}, Path |-> pRoot, IsPathPrefix |-> FALSE,
     Methods |-> <<mGET>>, Headers |-> <<hFoo>>, Expose |-> <<>>, MaxAge |-> 0,
     Credentials |-> FALSE, Vary |-> <<>>, Check |-> NoCheck]

\* any origin, no credentials, every header
ResStar ==
    [Origin |-> Star, OriginRegexp |-> {}, Path |-> pRoot, IsPathPrefix |-> FALSE,
     Methods |-> <<mGET, mPOST>>, Headers |-> <<Star>>, Expose |-> <<hBar>>, MaxAge |-> 10,
     Credentials |-> FALSE, Vary |-> <<vOrigin, vAccept>>, Check |-> NoCheck]

\* any origin, no credentials, two listed headers, under a path prefix
ResStarPrefix ==
    [Origin |-> Star, OriginRegexp |-> {}, Path |-> pA, IsPathPrefix |-> TRUE,
     Methods |-> <<mGET>>, Headers |-> <<hFoo, hBar>>, Expose |-> <<>>, MaxAge |-> 0,
     Credentials |-> FALSE, Vary |-> <<>>, Check |-> NoCheck]

\* any origin, with credentials
ResStarCred ==
    [Origin |-> Star, OriginRegexp |-> {}, Path |-> pRoot, IsPathPrefix |-> FALSE,
     Methods |-> <<mGET>>, Headers |-> <<hFoo>>, Expose |-> <<>>, MaxAge |-> 0,
     Credentials |-> TRUE, Vary |-> <<vCookie>>, Check |-> NoCheck]

\* origins given by a pattern, with credentials, guarded
ResRegexp ==
    [Origin |-> EmptyStr, OriginRegexp |-> {oA, oB}, Path |-> pA, IsPathPrefix |-> TRUE,
     Methods |-> <<mPUT, mGET>>, Headers |-> <<hBar>>, Expose |-> <<hFoo, hBar>>, MaxAge |-> 5,
     Credentials |-> TRUE, Vary |-> <<>>, Check |-> CheckMethods({mOPTIONS})]

Specifications ==
    { <<>>,
      <<ResStar>>,
      <<ResExact, ResStar>>,
      <<ResExact, ResStarPrefix>>,
      <<ResRegexp, ResStarPrefix>>,
      <<ResStarCred, ResRegexp>> }

(***************************************************************************)
(* Requests.                                                               *)
(***************************************************************************)
\* the values of the Origin and X-Origin headers of a request
OriginPairs    == { <<EmptyStr, EmptyStr>>, <<oA, EmptyStr>>, <<Star, EmptyStr>>,
                    <<EmptyStr, oA>>, <<oB, oA>> }
RequestMethods == {mGET, mOPTIONS}
RequestPaths   == {pRoot, pASub, pC}
ACRequestMethods == {EmptyStr, mGET, mGetLow, mPUT}
\* the values of Access-Control-Request-Headers, one entry per header line
ACRequestHeaders ==
    { <<>>, <<hFoo>>, <<hFooCap>>, <<hFooBar>>, <<hBar, hFoo>> }
RequestVary    == { <<>>, <<vAccept>> }
\* the Vary header an outer handler has put on the response already
ResponseVary   == { <<vCookie>> }

OneValue(s) == IF s = EmptyStr THEN <<>> ELSE <<s>>

NewRequest(m, p, o, xo, acm, ach, v) ==
    [Method |-> m, Path |-> p,
     Header |-> [k \in ReqKeys |->
                    CASE k = "Origin" -> OneValue(o)
                      [] k = "X-Origin" -> OneValue(xo)
                      [] k = acRequestMethod -> OneValue(acm)
                      [] k = acRequestHeaders -> ach
                      [] OTHER -> v]]

NoRequest == NewRequest(EmptyStr, EmptyStr, EmptyStr, EmptyStr, EmptyStr, <<>>, <<>>)

EmptyHeader == [k \in RespKeys |-> <<>>]
NewResponse(v) == [Header |-> [EmptyHeader EXCEPT !["Vary"] = v], Status |-> 0]

(***************************************************************************)
(* The resource lookups.  A resource is named by its index in the          *)
(* Specification; index 0 is the nil *ResourceDefinition.                  *)
(***************************************************************************)
NilRes == 0

\* a variant that allows every origin
OriginAllowedAny(res, origin) == TRUE

OriginAllowed(res, origin) ==
    IF res.Origin # EmptyStr
    THEN res.Origin = Star \/ res.Origin = origin
    ELSE origin \in res.OriginRegexp

PathMatches(res, path) ==
    IF res.IsPathPrefix THEN HasPrefix(path, res.Path) ELSE path = res.Path

\* a variant that never asks the guard
CheckIgnored(res, r) == TRUE

\* res.Check == nil || res.Check(ctx)
CheckPasses(res, r) == res.Check.isNil \/ r.Method \in res.Check.accepts

\* the first resource of v, from index i on, that allows the origin, matches the
\* path of the request and whose guard passes
RECURSIVE RequestResourceFrom(_, _, _, _)
RequestResourceFrom(v, i, r, origin) ==
    IF i > Len(v) THEN NilRes
    ELSE IF OriginAllowed(v[i], origin) /\ PathMatches(v[i], r.Path) /\ CheckPasses(v[i], r)
         THEN i
         ELSE RequestResourceFrom(v, i + 1, r, origin)

RequestResource(v, r, origin) == RequestResourceFrom(v, 1, r, origin)

RECURSIVE PathResourceFrom(_, _, _)
PathResourceFrom(v, i, path) ==
    IF i > Len(v) THEN NilRes
    ELSE IF v[i].IsPathPrefix
         THEN (IF HasPrefix(path, v[i].Path) THEN i ELSE PathResourceFrom(v, i + 1, path))
         ELSE (IF v[i].Path = path THEN i ELSE PathResourceFrom(v, i + 1, path))

PathResource(v, path) == PathResourceFrom(v, 1, path)

\* a variant that joins the lists with a bare comma
FillHeadersBareComma(res, origin, dest) ==
    LET d1 == Set(dest, acAllowOrigin, origin)
        d2 == Set(d1, acAllowMethods, Join(res.Methods, <<",">>))
        d3 == IF Len(res.Expose) > 0
              THEN Set(d2, acExposeHeaders, Join(res.Expose, <<",">>)) ELSE d2
        d4 == IF res.MaxAge > 0 THEN Set(d3, acMaxAge, Itoa(res.MaxAge)) ELSE d3
    IN  IF res.Credentials THEN Set(d4, acAllowCredentials, sTrue) ELSE d4

\* a variant that always writes Access-Control-Allow-Credentials
FillHeadersFalseCredentials(res, origin, dest) ==
    LET d1 == Set(dest, acAllowOrigin, origin)
        d2 == Set(d1, acAllowMethods, Join(res.Methods, CommaSpace))
        d3 == IF Len(res.Expose) > 0
              THEN Set(d2, acExposeHeaders, Join(res.Expose, CommaSpace)) ELSE d2
        d4 == IF res.MaxAge > 0 THEN Set(d3, acMaxAge, Itoa(res.MaxAge)) ELSE d3
    IN  Set(d4, acAllowCredentials,
            IF res.Credentials THEN sTrue ELSE <<"f","a","l","s","e">>)

FillHeaders(res, origin, dest) ==
    LET d1 == Set(dest, acAllowOrigin, origin)
        d2 == Set(d1, acAllowMethods, Join(res.Methods, CommaSpace))
        d3 == IF Len(res.Expose) > 0
              THEN Set(d2, acExposeHeaders, Join(res.Expose, CommaSpace)) ELSE d2
        d4 == IF res.MaxAge > 0 THEN Set(d3, acMaxAge, Itoa(res.MaxAge)) ELSE d3
    IN  IF res.Credentials THEN Set(d4, acAllowCredentials, sTrue) ELSE d4

(***************************************************************************)
(* The preflight branch of Middleware.                                     *)
(***************************************************************************)
\* for _, m := range res.Methods { if m == acMethod { found = true; break } }
MethodFound(res, acMethod) == \E i \in 1..Len(res.Methods) : res.Methods[i] = acMethod

\* a variant that does not trim the entries
RECURSIVE SplatUntrimmed(_)
SplatUntrimmed(lines) ==
    IF Len(lines) = 0 THEN <<>>
    ELSE Split(Head(lines), ",") \o SplatUntrimmed(Tail(lines))

\* the requested headers: every line of the header split at commas, every
\* entry trimmed
RECURSIVE Splat(_)
Splat(lines) ==
    IF Len(lines) = 0 THEN <<>>
    ELSE LET hs == Split(Head(lines), ",")
         IN  [i \in 1..Len(hs) |-> TrimSpace(hs[i])] \o Splat(Tail(lines))

\* the inner loop: some allowed header is * or is the requested header h
HeaderListed(res, h) == \E j \in 1..Len(res.Headers) : res.Headers[j] = Star \/ h = res.Headers[j]

\* the outer loop, from requested header i on, with the current value of ok:
\* ok is set when a header is listed, is never cleared, and the loop stops at
\* the first header after which ok is still false
RECURSIVE HeadersLoop(_, _, _, _)
HeadersLoop(res, headers, i, ok) ==
    IF i > Len(headers) THEN ok
    ELSE LET ok2 == ok \/ HeaderListed(res, headers[i])
         IN  IF ~ok2 THEN ok2 ELSE HeadersLoop(res, headers, i + 1, ok2)

HeadersOk(res, headers) == HeadersLoop(res, headers, 1, FALSE)

(***************************************************************************)
(* Middleware: the handler up to its call of the next handler h.  The      *)
(* result is the request and the response headers h is called with, and    *)
(* the resources the handler selected.                                     *)
(***************************************************************************)
\* a variant that prefers the X-Origin header
EffectiveOriginXFirst(header) ==
    IF Get(header, "X-Origin") = EmptyStr THEN Get(header, "Origin") ELSE Get(header, "X-Origin")

\* origin := header.Get("Origin"); if origin == "" { origin = header.Get("X-Origin") }
EffectiveOrigin(header) ==
    IF Get(header, "Origin") = EmptyStr THEN Get(header, "X-Origin") ELSE Get(header, "Origin")

\* a variant that looks a resource up also when the request has no origin
CorsResourceUnguarded(v, r, origin) == RequestResource(v, r, origin)

\* if origin != "" { res = spec.RequestResource(ctx, origin) }, else res stays nil
CorsResource(v, r, origin) ==
    IF origin # EmptyStr THEN RequestResource(v, r, origin) ELSE NilRes

\* a variant that overwrites the header with the entries of the resource
VaryAppendedReplacing(res, old) ==
    IF Len(res.Vary) > 0 THEN res.Vary ELSE <<vOrigin>>

\* v := header["Vary"]; v = append(v, res.Vary...) or append(v, "Origin")
VaryAppended(res, old) ==
    IF Len(res.Vary) > 0 THEN old \o res.Vary ELSE Append(old, vOrigin)

\* a variant that takes every request with Access-Control-Request-Method for
\* a preflight, whatever its method
IsPreflightAnyMethod(method, acMethod) == ~(acMethod = EmptyStr)

\* if req.Method != "OPTIONS" || acMethod == "" { goto handleRequest }
IsPreflight(method, acMethod) == ~(method # mOPTIONS \/ acMethod = EmptyStr)

\* a variant that drops the error of the next handler
MiddlewareReturnNil(e) == "nil"

\* return h(ctx, rw, req): the handler returns what the next handler returned
MiddlewareReturn(e) == e

\* lines 38-104: the handler once origin and res (cors) are looked up
MiddlewareFor(v, r, dest, origin, cors) ==
    LET header  == r.Header
        acMethod == ToUpper(Get(header, acRequestMethod))
        isPreflight == cors # NilRes /\ IsPreflight(r.Method, acMethod)
        found   == isPreflight /\ MethodFound(v[cors], acMethod)
        headers == Splat(header[acRequestHeaders])
        \* reached line 82: no goto handleRequest was taken
        answered == found /\ (Len(headers) > 0 => HeadersOk(v[cors], headers))
        originHeader ==
            IF answered /\ v[cors].Origin = Star /\ ~v[cors].Credentials THEN Star ELSE origin
        dest1   == IF answered THEN Set(dest, acAllowHeaders, Join(headers, CommaSpace)) ELSE dest
        \* handleRequest:
        dest2   == IF cors # NilRes THEN FillHeaders(v[cors], originHeader, dest1) ELSE dest1
        res     == IF cors # NilRes THEN cors ELSE PathResource(v, r.Path)
        vary    == IF res = NilRes THEN header["Vary"] ELSE VaryAppended(v[res], header["Vary"])
    IN  [req |-> [r EXCEPT !.Header["Vary"] = vary],
         dest |-> dest2,
         origin |-> origin, cors |-> cors, res |-> res,
         preflight |-> isPreflight, found |-> found, answered |-> answered]

Middleware(v, r, dest) ==
    MiddlewareFor(v, r, dest, EffectiveOrigin(r.Header),
                  CorsResource(v, r, EffectiveOrigin(r.Header)))

(***************************************************************************)
(* The service: its mux and the handler chain of a request.  A mux entry   *)
(* is a method, a path pattern and the handler mounted there: "app" for a  *)
(* handler of the application, "preflight" for the handler mounted by      *)
(* MountPreflightController.                                               *)
(***************************************************************************)
\* the patterns at which the application may mount an OPTIONS handler
AppOptionsPatterns == {pRoot, pA \o sSlashCors}
\* the paths at which the application mounts its GET handler
AppGetPaths == {pRoot, pASub}

\* ServeMux().Lookup(method, pattern): the handler mounted at exactly this pattern
Lookup(m, method, pattern) ==
    IF \E e \in m : e.method = method /\ e.pattern = pattern
    THEN (CHOOSE e \in m : e.method = method /\ e.pattern = pattern).handler
    ELSE "nil"

\* a variant that mounts at the path of the resource, without the catch-all
PreflightPatternExact(res) == res.Path

\* the pattern MountPreflightController computes for a resource
PreflightPattern(res) ==
    IF res.IsPathPrefix
    THEN (IF HasSuffix(res.Path, <<"/">>) THEN res.Path \o sCors ELSE res.Path \o sSlashCors)
    ELSE res.Path

\* a variant that mounts the preflight handler whatever is mounted already
RECURSIVE MountFromReplacing(_, _, _)
MountFromReplacing(v, i, m) ==
    IF i > Len(v) THEN m
    ELSE LET path == PreflightPattern(v[i])
         IN  MountFromReplacing(v, i + 1,
                 {e \in m : ~(e.method = mOPTIONS /\ e.pattern = path)}
                 \cup {[method |-> mOPTIONS, pattern |-> path, handler |-> "preflight"]})

\* the loop of MountPreflightController from resource i on
RECURSIVE MountFrom(_, _, _)
MountFrom(v, i, m) ==
    IF i > Len(v) THEN m
    ELSE LET path == PreflightPattern(v[i])
         IN  IF Lookup(m, mOPTIONS, path) = "nil"
             THEN MountFrom(v, i + 1,
                      m \cup {[method |-> mOPTIONS, pattern |-> path, handler |-> "preflight"]})
             ELSE MountFrom(v, i + 1, m)

\* a pattern ending in the catch-all *cors serves every path under it
PatternServes(pattern, path) ==
    IF HasSuffix(pattern, sCors)
    THEN HasPrefix(path, SubSeq(pattern, 1, Len(pattern) - Len(sCors)))
    ELSE pattern = path

\* the handler the mux dispatches the request to
Route(m, r) ==
    LET es == {e \in m : e.method = r.Method /\ PatternServes(e.pattern, r.Path)}
    IN  IF es = {} THEN "notfound" ELSE (CHOOSE e \in es : TRUE).handler

\* the handlers a request runs through: the middleware mounted with
\* service.Use, then for the preflight handler the middleware it is wrapped
\* in, then the handler
RECURSIVE Repeat(_, _)
Repeat(x, n) == IF n = 0 THEN <<>> ELSE <<x>> \o Repeat(x, n - 1)

HandlerChain(n, handler) ==
    IF handler = "notfound" THEN <<"notfound">>
    ELSE IF handler = "preflight" THEN Repeat("cors", n) \o <<"cors", "preflight">>
    ELSE Repeat("cors", n) \o <<"app">>

\* what the handler of the application returns
AppErrors == {"nil", "error"}

Requests ==
    { NewRequest(m, p, o[1], o[2], acm, ach, v) :
        m \in RequestMethods, p \in RequestPaths, o \in OriginPairs,
        acm \in ACRequestMethods, ach \in ACRequestHeaders, v \in RequestVary }

(***************************************************************************)
(* The state of each variable group while another specification runs.      *)
(***************************************************************************)
\* the goroutines that serve requests at the same time
Conns == 1..MaxInflight

\* a goroutine that serves no request
IdleConn ==
    [pc |-> "idle", reqIn |-> NoRequest, req |-> NoRequest, destIn |-> EmptyHeader,
     rw |-> NewResponse(<<>>), origin |-> EmptyStr, res |-> NilRes]

ConcIdle == inflight = [p \in Conns |-> IdleConn]

\* a regular expression is the set of the strings it matches; a nil
\* *regexp.Regexp matches nothing and is tested for before it is used
NilRegexp == [isNil |-> TRUE, matches |-> {}]
Regexp(strs) == [isNil |-> FALSE, matches |-> strs]
MatchString(re, str) == str \in re.matches

RequestIDHeader == "X-Request-Id"
sApiKey == "X-Api-Key"
MwReqKeys == {RequestIDHeader, sApiKey}

NewMwRequest(path, id, key, params, payload) ==
    [Path |-> path, HasParams |-> params, HasPayload |-> payload,
     Header |-> [k \in MwReqKeys |-> IF k = RequestIDHeader THEN OneValue(id) ELSE OneValue(key)]]

\* the goa.Context of a goroutine that serves no request.  Values is the
\* value under ReqIDKey and LoggerId the "id" of ctx.Logger, each a list
\* that is empty when there is none; err and panic are the error returned
\* and the value panicked with, empty for nil and for no panic.  calls, seen
\* handlerErr and thrown record the calls of the handler of the application,
\* the ReqIDKey value it found, the error it returned and what it panicked with.
IdleCtx ==
    [pc |-> "idle", Request |-> NewMwRequest(EmptyStr, EmptyStr, EmptyStr, FALSE, FALSE),
     Values |-> <<>>, HasLogger |-> TRUE, LoggerId |-> <<>>, Log |-> <<>>,
     todo |-> <<>>, frames |-> <<>>, calls |-> 0, seen |-> <<>>, handlerErr |-> <<>>,
     thrown |-> <<>>,
     err |-> <<>>, panic |-> <<>>, Status |-> 0, Body |-> <<>>]

NoGate == [pathPattern |-> NilRegexp, requiredHeaderName |-> sApiKey,
           requiredHeaderValue |-> NilRegexp, failureStatus |-> 0]

sPrefix == <<"Z","m","9","v","Y","m","F","y","Y","g">>

MwIdle ==
    /\ reqPrefix = sPrefix
    /\ reqID = 0
    /\ mws = <<>>
    /\ gate = NoGate
    /\ ctxs = [p \in Conns |-> IdleCtx]
    /\ issued = <<>>

\* the SigningMethod constants: _ = iota, then RSA256 SigningMethod = iota + 1
RSA256 == 2
RSA384 == 3
RSA512 == 4
HMAC256 == 5
HMAC384 == 6
HMAC512 == 7
ECDSA256 == 8
ECDSA384 == 9
ECDSA512 == 10

SigningMethods ==
    {RSA256, RSA384, RSA512, HMAC256, HMAC384, HMAC512, ECDSA256, ECDSA384, ECDSA512}

\* the map init() fills
SigningMethodsTable ==
    [m \in SigningMethods |->
        CASE m = RSA256 -> "RS256"
          [] m = RSA384 -> "RS512"
          [] m = RSA512 -> "RS512"
          [] m = HMAC256 -> "HS256"
          [] m = HMAC384 -> "HS384"
          [] m = HMAC512 -> "HS512"
          [] m = ECDSA256 -> "ES256"
          [] m = ECDSA384 -> "ES384"
          [] m = ECDSA512 -> "ES512"]

JWTHeader == "Authorization"
sXToken == "X-Token"
JwtHeaderKeys == {JWTHeader, sXToken}
sTokenParam == "token"
JwtParamKeys == {sTokenParam}

\* a request: its method, its headers and the parameters of its query string
NewJwtRequest(m, k, h, q) ==
    [Method |-> m,
     Header |-> [x \in JwtHeaderKeys |-> IF x = k THEN OneValue(h) ELSE <<>>],
     Query |-> [x \in JwtParamKeys |-> OneValue(q)]]

\* what GetToken returns: a token and an error, each a list that is empty for nil
NoToken == [token |-> <<>>, err |-> <<>>]

NewJwtSpecification(th, tp, ap, ao) ==
    [TokenHeader |-> th, TokenParam |-> tp, AllowParam |-> ap, AuthOptions |-> ao]

\* the middleware before it is created
JwtNew ==
    [pc |-> "new", extracted |-> NoToken, called |-> 0, ctxToken |-> <<>>,
     Status |-> 0, Body |-> EmptyStr, err |-> <<>>]

JwtIdle ==
    /\ signingmethods = SigningMethodsTable
    /\ jspec = NewJwtSpecification("", "", FALSE, FALSE)
    /\ jreq = NewJwtRequest(EmptyStr, JWTHeader, EmptyStr, EmptyStr)
    /\ jres = JwtNew

ServiceIdle ==
    /\ uses = MaxUse
    /\ mux = {}
    /\ phase = "new"
    /\ req = NoRequest
    /\ rw = NewResponse(<<>>)
    /\ chain = <<>>
    /\ runs = <<>>
    /\ stack = <<>>
    /\ served = <<>>
    /\ ret = "none"

(***************************************************************************)
(* Initial state and actions.                                              *)
(***************************************************************************)
Init ==
    /\ spec \in Specifications
    /\ uses = MaxUse
    /\ mux = {}
    /\ phase = "new"
    /\ req = NoRequest
    /\ rw = NewResponse(<<>>)
    /\ chain = <<>>
    /\ runs = <<>>
    /\ stack = <<>>
    /\ served = <<>>
    /\ ret = "none"
    /\ ConcIdle
    /\ MwIdle
    /\ JwtIdle

\* the application mounts its controllers: a GET handler at each of its
\* paths, and an OPTIONS handler at the patterns it chooses
MountControllers(opts) ==
    /\ phase = "new"
    /\ mux' = {[method |-> mGET, pattern |-> p, handler |-> "app"] : p \in AppGetPaths}
              \cup {[method |-> mOPTIONS, pattern |-> p, handler |-> "app"] : p \in opts}
    /\ phase' = "mounted"
    /\ UNCHANGED <<spec, uses, req, rw, chain, runs, stack, served, ret>>
    /\ UNCHANGED others

MountPreflightController ==
    /\ phase = "mounted"
    /\ mux' = MountFrom(spec, 1, mux)
    /\ phase' = "serving"
    /\ UNCHANGED <<spec, uses, req, rw, chain, runs, stack, served, ret>>
    /\ UNCHANGED others

\* a request arrives and is dispatched
Receive(r, v) ==
    /\ phase = "serving"
    /\ req' = r
    /\ rw' = NewResponse(v)
    /\ chain' = HandlerChain(uses, Route(mux, r))
    /\ runs' = <<>>
    /\ phase' = "handling"
    /\ UNCHANGED <<spec, uses, mux, stack, served, ret>>
    /\ UNCHANGED others

\* the handler returned by Middleware(spec)(h) runs and calls h
RunMiddleware ==
    /\ phase = "handling"
    /\ Len(chain) > 0 /\ Head(chain) = "cors"
    /\ LET out == Middleware(spec, req, rw.Header)
       IN  /\ req' = out.req
           /\ rw' = [rw EXCEPT !.Header = out.dest]
           /\ runs' = Append(runs, [reqIn |-> req, destIn |-> rw.Header,
                                    reqOut |-> out.req, destOut |-> out.dest,
                                    origin |-> out.origin, cors |-> out.cors, res |-> out.res,
                                    preflight |-> out.preflight, found |-> out.found,
                                    answered |-> out.answered])
    /\ chain' = Tail(chain)
    /\ stack' = Append(stack, "cors")
    /\ UNCHANGED <<spec, uses, mux, phase, served, ret>>
    /\ UNCHANGED others

\* the handler of the application: it writes status 200 and returns nil, or
\* fails and returns an error
AppHandler(e) ==
    /\ phase = "handling"
    /\ Len(chain) > 0 /\ Head(chain) = "app"
    /\ rw' = IF e = "nil" THEN [rw EXCEPT !.Status = 200] ELSE rw
    /\ chain' = Tail(chain)
    /\ served' = Append(served, [handler |-> "app", err |-> e])
    /\ ret' = e
    /\ phase' = IF stack = <<>> THEN "responded" ELSE "returning"
    /\ UNCHANGED <<spec, uses, mux, req, runs, stack>>
    /\ UNCHANGED others

\* the handler mounted by MountPreflightController
PreflightHandler ==
    /\ phase = "handling"
    /\ Len(chain) > 0 /\ Head(chain) = "preflight"
    /\ rw' = [Header |-> Set(rw.Header, "Content-Type", sTextPlain), Status |-> 200]
    /\ chain' = Tail(chain)
    /\ served' = Append(served, [handler |-> "preflight", err |-> "nil"])
    /\ ret' = "nil"
    /\ phase' = IF stack = <<>> THEN "responded" ELSE "returning"
    /\ UNCHANGED <<spec, uses, mux, req, runs, stack>>
    /\ UNCHANGED others

\* no handler is mounted for the method and path of the request
NotFound ==
    /\ phase = "handling"
    /\ Len(chain) > 0 /\ Head(chain) = "notfound"
    /\ rw' = [rw EXCEPT !.Status = 404]
    /\ chain' = Tail(chain)
    /\ phase' = "responded"
    /\ UNCHANGED <<spec, uses, mux, req, runs, stack, served, ret>>
    /\ UNCHANGED others

\* the next handler has returned to the innermost pending handler of
\* Middleware, which returns in turn
ReturnMiddleware ==
    /\ phase = "returning"
    /\ Len(stack) > 0
    /\ ret' = MiddlewareReturn(ret)
    /\ stack' = SubSeq(stack, 1, Len(stack) - 1)
    /\ phase' = IF Len(stack) = 1 THEN "responded" ELSE "returning"
    /\ UNCHANGED <<spec, uses, mux, req, rw, chain, runs, served>>
    /\ UNCHANGED others

\* the response is sent; the service waits for the next request
Finish ==
    /\ phase = "responded"
    /\ req' = NoRequest
    /\ rw' = NewResponse(<<>>)
    /\ runs' = <<>>
    /\ served' = <<>>
    /\ ret' = "none"
    /\ phase' = "serving"
    /\ UNCHANGED <<spec, uses, mux, chain, stack>>
    /\ UNCHANGED others

Next ==
    \/ \E opts \in SUBSET AppOptionsPatterns : MountControllers(opts)
    \/ MountPreflightController
    \/ \E r \in Requests, v \in ResponseVary : Receive(r, v)
    \/ RunMiddleware
    \/ \E e \in AppErrors : AppHandler(e)
    \/ PreflightHandler
    \/ NotFound
    \/ ReturnMiddleware
    \/ Finish

Spec == Init /\ [][Next]_vars

(***************************************************************************)
(* Vocabulary of the properties.  A run is one execution of the handler    *)
(* of Middleware on the current request: runs[i].reqIn and destIn are the  *)
(* request and the response headers it received, reqOut and destOut what   *)
(* it handed to the next handler.                                          *)
(***************************************************************************)
Ran(i) == i \in 1..Len(runs)

InSeq(x, a) == \E j \in 1..Len(a) : a[j] = x

IsPrefixOf(a, b) == Len(a) <= Len(b) /\ SubSeq(b, 1, Len(a)) = a

\* the request carries neither Origin nor X-Origin
NoOrigin(r) == Get(r.Header, "Origin") = EmptyStr /\ Get(r.Header, "X-Origin") = EmptyStr

\* the run set no Access-Control-* header: none is on the response after it
\* that was not there before, and none changed
NoACHeaderSet(i) == \A k \in ACResponseKeys : runs[i].destOut[k] = runs[i].destIn[k]

NoACHeader(h) == \A k \in ACResponseKeys : h[k] = <<>>

\* the resource the run matched by origin and path
Matched(i) == spec[runs[i].cors]

\* a preflight request whose origin matches a resource
IsPreflightRun(i) ==
    /\ runs[i].cors # NilRes
    /\ runs[i].reqIn.Method = mOPTIONS
    /\ Get(runs[i].reqIn.Header, acRequestMethod) # EmptyStr

RequestedMethod(i) == ToUpper(Get(runs[i].reqIn.Header, acRequestMethod))

MethodAllowed(i) == InSeq(RequestedMethod(i), Matched(i).Methods)

\* the comma-separated entries of Access-Control-Request-Headers
RequestedHeaders(i) == Splat(runs[i].reqIn.Header[acRequestHeaders])

\* the requested header h is one of the allowed headers, whatever the case
\* of its letters, or the allowed headers contain *
HeaderAllowed(res, h) ==
    \E j \in 1..Len(res.Headers) :
        res.Headers[j] = Star \/ ToLower(res.Headers[j]) = ToLower(h)

EveryHeaderAllowed(i) ==
    \A j \in 1..Len(RequestedHeaders(i)) : HeaderAllowed(Matched(i), RequestedHeaders(i)[j])

\* the entries a run adds to Vary for the resource it selected
VaryEntries(i) ==
    IF runs[i].res = NilRes THEN <<>>
    ELSE IF spec[runs[i].res].Vary # <<>> THEN spec[runs[i].res].Vary
    ELSE <<vOrigin>>

(***************************************************************************)
(* C1.  A request that carries neither an Origin nor an X-Origin header    *)
(* gets no Access-Control-* response header from the middleware, whatever  *)
(* its method, path and other headers and whatever the rules, also when a  *)
(* rule matches its path.                                                  *)
(***************************************************************************)
C1_NoOriginNoACHeader ==
    \A i \in 1..Len(runs) :
        NoOrigin(runs[i].reqIn) => NoACHeaderSet(i) /\ NoACHeader(runs[i].destOut)

\* a request without origin on a path of a resource that allows any origin,
\* asking for a preflight
C1_Witness ==
    \E i \in 1..Len(runs) :
        /\ NoOrigin(runs[i].reqIn)
        /\ runs[i].res # NilRes /\ spec[runs[i].res].Origin = Star
        /\ runs[i].reqIn.Method = mOPTIONS
        /\ Get(runs[i].reqIn.Header, acRequestMethod) = mGET

(***************************************************************************)
(* C2.  A preflight request (OPTIONS, non-empty Access-Control-Request-    *)
(* Method, origin matching a rule) whose requested method, uppercased, is  *)
(* not among the allowed methods of the matched rule gets no CORS response *)
(* header at all.                                                          *)
(***************************************************************************)
C2_DisallowedMethodNoACHeader ==
    \A i \in 1..Len(runs) :
        IsPreflightRun(i) /\ ~MethodAllowed(i) => NoACHeader(runs[i].destOut)

(***************************************************************************)
(* C3.  On a preflight request whose method check passed,                  *)
(* Access-Control-Allow-Headers is written only if every requested header  *)
(* is among the allowed headers of the matched rule, or these contain *.   *)
(***************************************************************************)
C3_AllowHeadersOnlyIfEveryHeaderAllowed ==
    \A i \in 1..Len(runs) :
        IsPreflightRun(i) /\ MethodAllowed(i) /\ runs[i].destOut[acAllowHeaders] # <<>>
            => EveryHeaderAllowed(i)

(***************************************************************************)
(* C4.  On a preflight request in which some requested header fails the    *)
(* check against the allowed headers, no Access-Control-* response header  *)
(* is written.                                                             *)
(***************************************************************************)
C4_DisallowedHeaderNoACHeader ==
    \A i \in 1..Len(runs) :
        IsPreflightRun(i) /\ MethodAllowed(i) /\ ~EveryHeaderAllowed(i)
            => NoACHeader(runs[i].destOut)

(***************************************************************************)
(* C5.  The header check is case-insensitive: a preflight whose requested  *)
(* headers all equal an allowed header up to the case of their letters is  *)
(* answered with Access-Control-Allow-Headers.                             *)
(***************************************************************************)
C5_HeaderCheckCaseInsensitive ==
    \A i \in 1..Len(runs) :
        IsPreflightRun(i) /\ MethodAllowed(i) /\ EveryHeaderAllowed(i)
            => runs[i].destOut[acAllowHeaders] # <<>>

(***************************************************************************)
(* C6.  Whenever Access-Control-Allow-Origin is emitted from a rule whose  *)
(* origin is * and which does not allow credentials, its value is *, for   *)
(* simple requests and failed preflights as for successful preflights.     *)
(***************************************************************************)
C6_WildcardOriginEmitsStar ==
    \A i \in 1..Len(runs) :
        /\ runs[i].cors # NilRes
        /\ Matched(i).Origin = Star /\ ~Matched(i).Credentials
        /\ runs[i].destOut[acAllowOrigin] # <<>>
        => runs[i].destOut[acAllowOrigin] = <<Star>>

(***************************************************************************)
(* C7.  A request answered from a rule that allows credentials gets the    *)
(* request origin as Access-Control-Allow-Origin and never *, and          *)
(* Access-Control-Allow-Credentials: true never comes with                 *)
(* Access-Control-Allow-Origin: *.                                         *)
(***************************************************************************)
C7_CredentialsNeverStar ==
    \A i \in 1..Len(runs) :
        /\ (runs[i].cors # NilRes /\ Matched(i).Credentials
               => /\ runs[i].destOut[acAllowOrigin] = <<EffectiveOrigin(runs[i].reqIn.Header)>>
                  /\ runs[i].destOut[acAllowOrigin] # <<Star>>)
        /\ ~(/\ runs[i].destOut[acAllowCredentials] = <<sTrue>>
             /\ runs[i].destOut[acAllowOrigin] = <<Star>>)

(***************************************************************************)
(* C8.  Whenever a rule is selected for a request, by origin and path or   *)
(* by path alone, the Vary header of the response has been extended with   *)
(* the varyAdditional entries of the rule, or with Origin when it has      *)
(* none.                                                                   *)
(***************************************************************************)
C8_ResponseVaryExtended ==
    \A i \in 1..Len(runs) :
        runs[i].res # NilRes
            => runs[i].destOut["Vary"] = runs[i].destIn["Vary"] \o VaryEntries(i)

(***************************************************************************)
(* C9.  The middleware changes only the response headers: the request it   *)
(* hands to the next handler equals the request it received.               *)
(***************************************************************************)
C9_RequestUnchanged ==
    \A i \in 1..Len(runs) : runs[i].reqOut = runs[i].reqIn

(***************************************************************************)
(* C10.  Vary accumulates: the values in a Vary header before a run of the *)
(* middleware are still there, in the same order, after it, and each of    *)
(* the n runs on one request appends its entries after those of the        *)
(* earlier runs.  The Vary header the middleware appends to is the one of  *)
(* the header map it writes the entries to.                                *)
(***************************************************************************)
RECURSIVE VaryOfRuns(_)
VaryOfRuns(n) == IF n = 0 THEN <<>> ELSE VaryOfRuns(n - 1) \o VaryEntries(n)

OriginMatches(rule, origin) ==
    \/ rule.Origin = origin
    \/ rule.Origin = Star
    \/ rule.Origin = EmptyStr /\ origin \in rule.OriginRegexp

PathMatchesRule(rule, path) ==
    \/ rule.Path = path
    \/ rule.IsPathPrefix /\ Len(path) >= Len(rule.Path)
          /\ \A k \in 1..Len(rule.Path) : path[k] = rule.Path[k]

GuardAccepts(rule, r) == rule.Check.isNil \/ r.Method \in rule.Check.accepts

RuleMatches(rule, r, origin) ==
    OriginMatches(rule, origin) /\ PathMatchesRule(rule, r.Path) /\ GuardAccepts(rule, r)

\* the indices of the rules that match the request of run i
MatchingRules(i) ==
    {n \in 1..Len(spec) : RuleMatches(spec[n], runs[i].reqIn, runs[i].origin)}

C11_FirstMatchWins ==
    \A i \in 1..Len(runs) :
        runs[i].origin # EmptyStr =>
            /\ (MatchingRules(i) = {} <=> runs[i].cors = NilRes)
            /\ (MatchingRules(i) # {} =>
                   /\ runs[i].cors \in MatchingRules(i)
                   /\ \A n \in MatchingRules(i) : runs[i].cors <= n)

\* the first rule matches origin and path but its guard rejects the request,
\* and the second rule is returned
C11_Witness ==
    \E i \in 1..Len(runs) :
        /\ runs[i].cors = 2
        /\ OriginMatches(spec[1], runs[i].origin)
        /\ PathMatchesRule(spec[1], runs[i].reqIn.Path)
        /\ ~GuardAccepts(spec[1], runs[i].reqIn)

(***************************************************************************)
(* C12.  For every request the middleware invokes the next handler         *)
(* exactly once, after all its own header writes, and returns exactly what *)
(* the next handler returns; it returns no error of its own and writes no  *)
(* status code.                                                            *)
(***************************************************************************)
\* the number of handlers of Middleware a request dispatched to handler h
\* runs through
LayersOf(h) == IF h = "preflight" THEN uses + 1 ELSE uses

C12_NextHandlerOnce ==
    /\ phase = "handling" => rw.Status = 0 /\ served = <<>> /\ ret = "none"
    /\ phase \in {"returning", "responded"} /\ Len(runs) > 0 =>
          /\ Len(served) = 1
          /\ Len(runs) = LayersOf(served[1].handler)
          /\ \A k \in ACResponseKeys \cup {"Vary"} :
                 rw.Header[k] = runs[Len(runs)].destOut[k]
          /\ rw.Status = (IF served[1].err = "nil" THEN 200 ELSE 0)
          /\ ret = served[1].err

\* a request whose origin matches no rule went through the middleware, the
\* handler failed, and its error came back through every layer
C12_Witness ==
    /\ phase = "responded"
    /\ Len(runs) > 0 /\ runs[1].origin # EmptyStr /\ runs[1].cors = NilRes
    /\ Len(served) = 1 /\ served[1].err = "error"
    /\ stack = <<>>

(***************************************************************************)
(* C13.  A non-preflight request whose origin and path match a rule, the   *)
(* guard passing, gets Access-Control-Allow-Methods equal to the allowed   *)
(* methods of the first such rule joined with ", " in configured order,    *)
(* together with Access-Control-Allow-Origin, whether or not its own       *)
(* method is among the allowed methods.                                    *)
(***************************************************************************)
\* the first rule that matches the request of run i
FirstMatching(i) == spec[CHOOSE n \in MatchingRules(i) : \A m \in MatchingRules(i) : n <= m]

\* OPTIONS with a non-empty Access-Control-Request-Method
AsksPreflight(r) == r.Method = mOPTIONS /\ Get(r.Header, acRequestMethod) # EmptyStr

C13_SimpleRequestAllowMethods ==
    \A i \in 1..Len(runs) :
        /\ runs[i].origin # EmptyStr
        /\ MatchingRules(i) # {}
        /\ ~AsksPreflight(runs[i].reqIn)
        => /\ runs[i].destOut[acAllowMethods] = <<Join(FirstMatching(i).Methods, CommaSpace)>>
           /\ runs[i].destOut[acAllowOrigin] # <<>>
           /\ (phase = "responded" /\ i = Len(runs)
                  => rw.Header[acAllowMethods] = runs[i].destOut[acAllowMethods])

\* an OPTIONS request without Access-Control-Request-Method answered from a
\* rule with two allowed methods, OPTIONS not among them
C13_Witness ==
    \E i \in 1..Len(runs) :
        /\ runs[i].origin # EmptyStr /\ MatchingRules(i) # {}
        /\ ~AsksPreflight(runs[i].reqIn)
        /\ Len(FirstMatching(i).Methods) = 2
        /\ ~InSeq(runs[i].reqIn.Method, FirstMatching(i).Methods)
        /\ phase = "responded"

(***************************************************************************)
(* C14.  A request whose origin is present but matches no rule by origin,  *)
(* path and guard gets no Access-Control-* response header, even when some *)
(* rule matches its path alone; it is forwarded to the next handler.       *)
(***************************************************************************)
C14_UnmatchedOriginNoACHeader ==
    \A i \in 1..Len(runs) :
        runs[i].origin # EmptyStr /\ MatchingRules(i) = {}
            => /\ NoACHeader(runs[i].destOut)
               /\ (phase = "responded" => NoACHeader(rw.Header) /\ Len(served) = 1)

\* the origin matches no rule, a rule matches the path, the handler answered
C14_Witness ==
    \E i \in 1..Len(runs) :
        /\ runs[i].origin # EmptyStr /\ MatchingRules(i) = {}
        /\ \E n \in 1..Len(spec) : PathMatchesRule(spec[n], runs[i].reqIn.Path)
        /\ phase = "responded" /\ rw.Status = 200

(***************************************************************************)
(* C15.  Only an OPTIONS request with a non-empty                          *)
(* Access-Control-Request-Method is a preflight: for every other request   *)
(* Access-Control-Allow-Headers is not written and                         *)
(* Access-Control-Allow-Origin, when written, is the request origin and    *)
(* not a * put in its place, whatever Access-Control-Request-Headers says. *)
(***************************************************************************)
C15_PreflightOnlyOptionsWithMethod ==
    \A i \in 1..Len(runs) :
        ~AsksPreflight(runs[i].reqIn)
            => /\ runs[i].destOut[acAllowHeaders] = <<>>
               /\ (runs[i].destOut[acAllowOrigin] # <<>>
                      => runs[i].destOut[acAllowOrigin] = <<EffectiveOrigin(runs[i].reqIn.Header)>>)

\* a GET request with Access-Control-Request-Method and -Headers answered
\* from a wildcard rule without credentials
C15_Witness ==
    \E i \in 1..Len(runs) :
        /\ runs[i].reqIn.Method = mGET
        /\ Get(runs[i].reqIn.Header, acRequestMethod) = mGET
        /\ runs[i].reqIn.Header[acRequestHeaders] # <<>>
        /\ runs[i].cors # NilRes
        /\ Matched(i).Origin = Star /\ ~Matched(i).Credentials
        /\ runs[i].origin # Star

(***************************************************************************)
(* C16.  On a successful preflight Access-Control-Allow-Headers is exactly *)
(* the requested header names (Access-Control-Request-Headers split on     *)
(* commas, each entry trimmed, in request order) joined with ", ": what    *)
(* was requested, not the allowed headers of the rule, also when the rule  *)
(* allows more headers or *.                                               *)
(***************************************************************************)
\* what is to be echoed for each value of Access-Control-Request-Headers
EchoOf(lines) ==
    CASE lines = <<>>           -> EmptyStr
      [] lines = <<hFoo>>       -> <<"f","o","o">>
      [] lines = <<hFooCap>>    -> <<"F","o","o">>
      [] lines = <<hFooBar>>    -> <<"f","o","o",","," ","b","a","r">>
      [] lines = <<hBar, hFoo>> -> <<"b","a","r",","," ","f","o","o">>

C16_AllowHeadersEchoesRequest ==
    \A i \in 1..Len(runs) :
        AsksPreflight(runs[i].reqIn) /\ runs[i].destOut[acAllowHeaders] # <<>>
            => runs[i].destOut[acAllowHeaders]
                   = <<EchoOf(runs[i].reqIn.Header[acRequestHeaders])>>

\* a preflight asking for "foo, bar" answered from a rule that allows *
C16_Witness ==
    \E i \in 1..Len(runs) :
        /\ AsksPreflight(runs[i].reqIn)
        /\ runs[i].reqIn.Header[acRequestHeaders] = <<hFooBar>>
        /\ runs[i].cors # NilRes /\ Matched(i).Headers = <<Star>>
        /\ runs[i].destOut[acAllowHeaders] # <<>>

(***************************************************************************)
(* C17.  When headers are composed from a matched rule, each optional      *)
(* header is written exactly when its field is set:                        *)
(* Access-Control-Allow-Credentials iff allowCredentials, with the value   *)
(* "true"; Access-Control-Expose-Headers iff exposedHeaders is non-empty;  *)
(* Access-Control-Max-Age iff maxAgeSeconds > 0, as its decimal string.    *)
(***************************************************************************)
DigitValue(c) == (CHOOSE d \in 1..Len(Digits) : Digits[d] = c) - 1

IsDecimal(s) ==
    /\ Len(s) > 0
    /\ \A k \in 1..Len(s) : \E d \in 1..Len(Digits) : Digits[d] = s[k]
    /\ (Len(s) > 1 => s[1] # "0")

\* the number a decimal string denotes
RECURSIVE DecimalValue(_)
DecimalValue(s) ==
    IF Len(s) = 0 THEN 0
    ELSE 10 * DecimalValue(SubSeq(s, 1, Len(s) - 1)) + DigitValue(s[Len(s)])

C17_OptionalHeadersIffSet ==
    \A i \in 1..Len(runs) :
        runs[i].cors # NilRes =>
            LET rule == Matched(i)
                out  == runs[i].destOut
            IN  /\ out[acAllowCredentials] = (IF rule.Credentials THEN <<sTrue>> ELSE <<>>)
                /\ (out[acExposeHeaders] # <<>> <=> rule.Expose # <<>>)
                /\ (rule.Expose # <<>>
                       => out[acExposeHeaders] = <<Join(rule.Expose, CommaSpace)>>)
                /\ (out[acMaxAge] # <<>> <=> rule.MaxAge > 0)
                /\ (rule.MaxAge > 0
                       => /\ Len(out[acMaxAge]) = 1
                          /\ IsDecimal(out[acMaxAge][1])
                          /\ DecimalValue(out[acMaxAge][1]) = rule.MaxAge)

\* headers composed from a rule without credentials, with exposed headers and
\* a two-digit max age
C17_Witness ==
    \E i \in 1..Len(runs) :
        /\ runs[i].cors # NilRes
        /\ ~Matched(i).Credentials /\ Matched(i).Expose # <<>> /\ Matched(i).MaxAge >= 10
        /\ runs[i].destOut[acAllowCredentials] = <<>>

(***************************************************************************)
(* C18.  MountPreflightController never replaces or shadows a handler of   *)
(* the application: every entry the mux holds when mounting runs is still  *)
(* the only entry for its method and pattern afterwards, and an OPTIONS    *)
(* preflight to a path with an OPTIONS handler of the application is       *)
(* served by that handler after the middleware composed the headers.       *)
(***************************************************************************)
\* a step of MountPreflightController keeps the entries of the mux
MountKeepsEntries ==
    (phase = "mounted" /\ phase' = "serving") =>
        \A e \in mux :
            /\ e \in mux'
            /\ \A f \in mux' : f.method = e.method /\ f.pattern = e.pattern => f = e

\* the application mounted an OPTIONS handler that serves the path
AppServesOptions(path) ==
    \E e \in mux : e.method = mOPTIONS /\ e.handler = "app" /\ PatternServes(e.pattern, path)

PreflightServedByApp ==
    /\ phase \in {"returning", "responded"}
    /\ AsksPreflight(req)
    /\ AppServesOptions(req.Path)
    => /\ Len(served) = 1 /\ served[1].handler = "app"
       /\ Len(runs) = uses
       /\ \A k \in ACResponseKeys : rw.Header[k] = runs[Len(runs)].destOut[k]

C18_MountKeepsAppHandlers == [][MountKeepsEntries]_vars /\ []PreflightServedByApp

\* a rule for a path at which the application mounted its OPTIONS handler,
\* and a preflight to it answered by the application with the CORS headers
C18_Witness ==
    /\ phase = "responded"
    /\ AsksPreflight(req)
    /\ AppServesOptions(req.Path)
    /\ \E n \in 1..Len(spec) :
          Lookup(mux, mOPTIONS, PreflightPattern(spec[n])) = "app"
          /\ PatternServes(PreflightPattern(spec[n]), req.Path)
    /\ rw.Header[acAllowMethods] # <<>>
    /\ served[1].handler = "app"

(***************************************************************************)
(* C19.  After MountPreflightController has run, an OPTIONS preflight to   *)
(* a path of a rule (its path, or for a prefix rule a path under it) for   *)
(* which the application mounted no OPTIONS handler is answered by the     *)
(* default responder with status 200 and Content-Type text/plain, and the  *)
(* response carries the CORS headers the middleware composed:              *)
(* Access-Control-Allow-Methods, and Access-Control-Allow-Headers when     *)
(* headers were requested and are listed by the rule.                      *)
(***************************************************************************)
\* the paths of a rule: its path, or for a prefix rule the paths under it
UnderRule(rule, path) ==
    IF rule.IsPathPrefix
    THEN LET dir == IF rule.Path[Len(rule.Path)] = "/" THEN rule.Path
                    ELSE Append(rule.Path, "/")
         IN  Len(path) >= Len(dir) /\ \A k \in 1..Len(dir) : path[k] = dir[k]
    ELSE path = rule.Path

\* every requested header is one of the allowed headers, letter for letter,
\* or the allowed headers contain *
EveryHeaderListed(i) ==
    \A j \in 1..Len(RequestedHeaders(i)) :
        InSeq(RequestedHeaders(i)[j], FirstMatching(i).Headers)
        \/ InSeq(Star, FirstMatching(i).Headers)

ClaimedOrigin(r) ==
    IF r.Header["Origin"] # <<>> /\ r.Header["Origin"][1] # EmptyStr
    THEN r.Header["Origin"][1]
    ELSE IF r.Header["X-Origin"] # <<>> THEN r.Header["X-Origin"][1] ELSE EmptyStr

\* the rules that match the request of run i for the origin o
RulesFor(i, o) == {n \in 1..Len(spec) : RuleMatches(spec[n], runs[i].reqIn, o)}

C22_EffectiveOrigin ==
    \A i \in 1..Len(runs) :
        LET o == ClaimedOrigin(runs[i].reqIn)
        IN  /\ runs[i].origin = o
            /\ (o # EmptyStr =>
                   /\ (runs[i].cors = NilRes <=> RulesFor(i, o) = {})
                   /\ (runs[i].cors # NilRes => runs[i].cors \in RulesFor(i, o)))
            /\ (runs[i].destOut[acAllowOrigin] # <<>> =>
                   \/ runs[i].destOut[acAllowOrigin] = <<o>>
                   \/ /\ runs[i].destOut[acAllowOrigin] = <<Star>>
                      /\ spec[runs[i].cors].Origin = Star
                      /\ ~spec[runs[i].cors].Credentials)

\* a request with X-Origin only, matched by the rule for that origin and
\* echoed, and a request with both headers answered for the Origin value
C22_Witness ==
    /\ phase = "responded"
    /\ Len(runs) > 0
    /\ \/ /\ req.Header["Origin"] = <<>>
          /\ req.Header["X-Origin"] = <<oA>>
          /\ runs[1].cors # NilRes
          /\ spec[runs[1].cors].Origin = oA
          /\ rw.Header[acAllowOrigin] = <<oA>>
       \/ /\ req.Header["Origin"] = <<oB>>
          /\ req.Header["X-Origin"] = <<oA>>
          /\ rw.Header[acAllowOrigin] = <<oB>>

(***************************************************************************)
(* Concurrent requests.  net/http serves every request on a goroutine of   *)
(* its own, and all of them run the handler of Middleware(spec) over the   *)
(* same Specification.  The handler of one request is cut where it reads   *)
(* the Specification: the lookup of the resource (lines 28-37), and the    *)
(* reads of the fields of that resource (lines 38-103).  Everything else   *)
(* it touches, the request and the response writer, is its own.            *)
(***************************************************************************)
\* the requests served concurrently
ConcRequests ==
    { NewRequest(mGET, pASub, oA, EmptyStr, EmptyStr, <<>>, <<>>),
      NewRequest(mOPTIONS, pASub, oA, EmptyStr, mGET, <<hFooBar>>, <<>>),
      NewRequest(mOPTIONS, pRoot, Star, EmptyStr, mGET, <<hFoo>>, <<vAccept>>),
      NewRequest(mGET, pRoot, EmptyStr, EmptyStr, EmptyStr, <<>>, <<>>) }

\* a variant in which the handler grows the Vary list of the resource it
\* selected, as res.Vary = append(res.Vary, ...) would
SpecificationAfterGrowingVary(v, res) ==
    IF res = NilRes THEN v ELSE [v EXCEPT ![res].Vary = Append(@, vOrigin)]

\* the Specification after a handler that selected res has run: the handler
\* assigns to no rule and to no field of the Specification
SpecificationAfter(v, res) == v

ConcInit ==
    /\ spec \in Specifications
    /\ ServiceIdle
    /\ ConcIdle
    /\ MwIdle
    /\ JwtIdle

\* a request arrives on goroutine p
ConcReceive(p, r, v) ==
    /\ inflight[p].pc = "idle"
    /\ inflight' = [inflight EXCEPT ![p] =
           [IdleConn EXCEPT !.pc = "lookup", !.reqIn = r, !.req = r,
                            !.destIn = NewResponse(v).Header, !.rw = NewResponse(v)]]
    /\ UNCHANGED <<spec, serviceVars, mwVars, jwtVars>>

\* lines 28-37: the origin is read and the resource looked up
ConcLookup(p) ==
    /\ inflight[p].pc = "lookup"
    /\ LET origin == EffectiveOrigin(inflight[p].req.Header)
       IN  inflight' = [inflight EXCEPT ![p].pc = "headers",
                                        ![p].origin = origin,
                                        ![p].res = CorsResource(spec, inflight[p].req, origin)]
    /\ UNCHANGED <<spec, serviceVars, mwVars, jwtVars>>

\* lines 38-103: the headers are composed from the fields of the resource
ConcHeaders(p) ==
    /\ inflight[p].pc = "headers"
    /\ LET out == MiddlewareFor(spec, inflight[p].req, inflight[p].rw.Header,
                                inflight[p].origin, inflight[p].res)
       IN  /\ inflight' = [inflight EXCEPT ![p].pc = "handler",
                                           ![p].req = out.req,
                                           ![p].rw.Header = out.dest,
                                           ![p].res = out.res]
           /\ spec' = SpecificationAfter(spec, out.res)
    /\ UNCHANGED <<serviceVars, mwVars, jwtVars>>

\* line 104: the next handler answers, and the goroutine is free again
ConcHandler(p) ==
    /\ inflight[p].pc = "handler"
    /\ inflight' = [inflight EXCEPT ![p] = IdleConn]
    /\ UNCHANGED <<spec, serviceVars, mwVars, jwtVars>>

ConcNext ==
    \/ \E p \in Conns, r \in ConcRequests, v \in ResponseVary : ConcReceive(p, r, v)
    \/ \E p \in Conns : ConcLookup(p)
    \/ \E p \in Conns : ConcHeaders(p)
    \/ \E p \in Conns : ConcHandler(p)

ConcSpec == ConcInit /\ [][ConcNext]_vars

(***************************************************************************)
(* C21.  Under every interleaving of concurrent requests through the CORS  *)
(* middleware that share one Specification, no step changes a field of a   *)
(* rule or the order of the rules, and the response headers of each        *)
(* request are those the request gets when it is processed alone.          *)
(***************************************************************************)
SpecificationKept == spec' = spec

\* the response headers of the request of goroutine p, processed alone
AloneHeaders(p) == Middleware(spec, inflight[p].reqIn, inflight[p].destIn).dest

ResponseAsAlone ==
    \A p \in Conns :
        inflight[p].pc = "handler" => inflight[p].rw.Header = AloneHeaders(p)

C21_SharedSpecificationReadOnly == [][SpecificationKept]_vars /\ []ResponseAsAlone

\* two requests under the same rule are inside the handler at the same
\* time, one a preflight and one a simple request
C21_Witness ==
    /\ inflight[1].pc = "handler" /\ inflight[2].pc = "handler"
    /\ inflight[1].res # NilRes /\ inflight[1].res = inflight[2].res
    /\ inflight[1].rw.Header[acAllowHeaders] # <<>>
    /\ inflight[2].rw.Header[acAllowHeaders] = <<>>
    /\ inflight[2].rw.Header[acAllowMethods] # <<>>

(***************************************************************************)
(* Package middleware: RequestID, LogRequest, Recover and RequireHeader.   *)
(* A service mounts the middlewares mws, outermost first, and every        *)
(* request runs on a goroutine of its own with a goa.Context of its own:   *)
(* todo is what is still to be entered, frames the handlers entered and    *)
(* not yet returned from.  The counter reqID and the prefix reqPrefix are   *)
(* the package variables all goroutines share.                             *)
(***************************************************************************)
\* the variables no step of package middleware writes
mwFixed == <<spec, serviceVars, inflight, jwtVars, reqPrefix, mws, gate>>

NewError(msg) == [msg |-> msg]

sBoom == <<"b","o","o","m">>
sFortyTwo == Itoa(42)
sPanicColon == <<"p","a","n","i","c",":"," ">>
sUnknownPanic == <<"u","n","k","n","o","w","n"," ","p","a","n","i","c">>
sRefer == <<"\n","R","e","f","e","r"," ","t","o"," ","t","h","e"," ","f","o","l","l","o","w","i","n","g"," ","t","o","k","e","n"," ","w","h","e","n"," ","c","o","n","t","a","c","t","i","n","g"," ","s","u","p","p","o","r","t",":"," ">>
sDash == <<"-">>

StatusOK == 200
StatusUnauthorized == 401
StatusInternalServerError == 500

\* http.StatusText
StatusText(code) ==
    CASE code = StatusUnauthorized -> <<"U","n","a","u","t","h","o","r","i","z","e","d">>
      [] code = 403 -> <<"F","o","r","b","i","d","d","e","n">>
      [] code = StatusInternalServerError -> <<"I","n","t","e","r","n","a","l"," ","S","e","r","v","e","r"," ","E","r","r","o","r">>
      [] code = StatusOK -> <<"O","K">>
      [] OTHER -> EmptyStr

\* what shortID may return: 6 random bytes in base64
ShortIDs == { <<"c","2","h","v","c","n","Q","x">>, <<"Q","U","J","D","R","E","V","G">> }

\* a variant that returns the counter without adding to it
AddInt64Lost(counter, delta) == counter

\* atomic.AddInt64: adds delta to the counter in one step and returns the new value
AddInt64(counter, delta) == counter + delta

\* fmt.Sprintf("%s-%d", reqPrefix, n)
NewRequestID(prefix, n) == prefix \o sDash \o Itoa(n)

\* the values a handler may panic with: a string, an error, something else
PanicValues ==
    { [type |-> "string", val |-> sBoom],
      [type |-> "error", val |-> sBoom],
      [type |-> "int", val |-> sFortyTwo] }

\* what the handler of the application returns: nil, or an error
HandlerErrors == { <<>>, <<NewError(sBoom)>> }

\* the frames of a goroutine with the innermost one removed
Pop(frames) == SubSeq(frames, 1, Len(frames) - 1)
Top(frames) == frames[Len(frames)]

\* the goroutine is about to enter the middleware name
About(p, name) ==
    ctxs[p].pc = "run" /\ ctxs[p].todo # <<>> /\ Head(ctxs[p].todo) = name

\* the goroutine is about to return from the handler of the middleware name
Leaving(p, name) ==
    ctxs[p].pc = "unwind" /\ ctxs[p].frames # <<>> /\ Top(ctxs[p].frames) = name

\* the handler of the middleware name is entered and calls the next one
Entered(c, name) == [c EXCEPT !.frames = Append(@, name), !.todo = Tail(@)]

\* a request arrives on goroutine p
MwReceive(p, r, logger) ==
    /\ ctxs[p].pc = "idle"
    /\ ctxs' = [ctxs EXCEPT ![p] =
           [IdleCtx EXCEPT !.pc = "run", !.Request = r, !.HasLogger = logger, !.todo = mws]]
    /\ UNCHANGED <<mwFixed, reqID, issued>>

\* a variant that creates a new id for every request
NeedsNewIDAlways(id) == TRUE

\* RequestID, line 128: if id == ""
NeedsNewID(id) == id = EmptyStr

\* RequestID, lines 127-133: the id of the header, or a new one
EnterRequestID(p) ==
    /\ About(p, "RequestID")
    /\ LET id == Get(ctxs[p].Request.Header, RequestIDHeader)
       IN  IF NeedsNewID(id)
           THEN /\ Len(issued) < MaxReqID
                /\ reqID' = AddInt64(reqID, 1)
                /\ issued' = Append(issued, NewRequestID(reqPrefix, reqID'))
                /\ ctxs' = [ctxs EXCEPT ![p] =
                       Entered([@ EXCEPT !.Values = <<NewRequestID(reqPrefix, reqID')>>],
                               "RequestID")]
           ELSE /\ ctxs' = [ctxs EXCEPT ![p] =
                       Entered([@ EXCEPT !.Values = <<id>>], "RequestID")]
                /\ UNCHANGED <<reqID, issued>>
    /\ UNCHANGED mwFixed

\* a log entry written through ctx.Logger: it carries the ids of the logger
LogEntry(c, msg) == [id |-> c.LoggerId, msg |-> msg]

\* a variant that always takes a short id
LogRequestIDShort(values, sid) == sid

\* LogRequest, lines 58-61: the value under ReqIDKey, or shortID() when nil
LogRequestID(values, sid) == IF values = <<>> THEN sid ELSE values[1]

\* LogRequest, lines 58-81: the logger gets its id, and the request is logged
LogRequestStarted(c, sid) ==
    LET id == LogRequestID(c.Values, sid)
        c1 == [c EXCEPT !.LoggerId = Append(@, id)]
        c2 == [c1 EXCEPT !.Log = Append(@, LogEntry(c1, "started"))]
        c3 == IF c2.Request.HasParams
              THEN [c2 EXCEPT !.Log = Append(@, LogEntry(c1, "params"))] ELSE c2
    IN  IF c3.Request.HasPayload
        THEN [c3 EXCEPT !.Log = Append(@, LogEntry(c1, "payload"))] ELSE c3

EnterLogRequest(p, sid) ==
    /\ About(p, "LogRequest")
    /\ ctxs' = [ctxs EXCEPT ![p] = Entered(LogRequestStarted(@, sid), "LogRequest")]
    /\ UNCHANGED <<mwFixed, reqID, issued>>

\* the handler of the application runs and returns e
HandlerReturns(p, e) ==
    /\ ctxs[p].pc = "run" /\ ctxs[p].todo = <<>>
    /\ ctxs' = [ctxs EXCEPT ![p].pc = "unwind", ![p].calls = @ + 1,
                            ![p].seen = ctxs[p].Values, ![p].err = e,
                            ![p].handlerErr = e,
                            ![p].Status = IF e = <<>> THEN StatusOK ELSE @]
    /\ UNCHANGED <<mwFixed, reqID, issued>>

\* RequestID, line 133: return h(ctx)
LeaveRequestID(p) ==
    /\ Leaving(p, "RequestID")
    /\ ctxs' = [ctxs EXCEPT ![p].frames = Pop(@)]
    /\ UNCHANGED <<mwFixed, reqID, issued>>

\* LogRequest, lines 82-85: the completion is logged unless h panicked
LogRequestCompleted(c) ==
    IF c.panic = <<>> THEN [c EXCEPT !.Log = Append(@, LogEntry(c, "completed"))] ELSE c

LeaveLogRequest(p) ==
    /\ Leaving(p, "LogRequest")
    /\ ctxs' = [ctxs EXCEPT ![p] = [LogRequestCompleted(@) EXCEPT !.frames = Pop(@)]]
    /\ UNCHANGED <<mwFixed, reqID, issued>>

\* the outermost handler has returned to the service, or panicked into it
AtService(p) == ctxs[p].pc = "unwind" /\ ctxs[p].frames = <<>>

\* the service ends the request, and the goroutine is free again
MwReturn(p) ==
    /\ AtService(p)
    /\ ctxs' = [ctxs EXCEPT ![p] = IdleCtx]
    /\ UNCHANGED <<mwFixed, reqID, issued>>

(***************************************************************************)
(* A service that mounts RequestID and LogRequest, in either order, and    *)
(* serves concurrent requests.                                             *)
(***************************************************************************)
sAbc == <<"a","b","c">>

IdChains ==
    { <<"RequestID", "LogRequest">>, <<"LogRequest", "RequestID">>, <<"LogRequest">> }

IdRequests ==
    { NewMwRequest(pRoot, sAbc, EmptyStr, FALSE, FALSE),
      NewMwRequest(pRoot, EmptyStr, EmptyStr, TRUE, TRUE) }

IdInit ==
    /\ spec = <<>>
    /\ ServiceIdle
    /\ ConcIdle
    /\ reqPrefix = sPrefix
    /\ reqID = 0
    /\ mws \in IdChains
    /\ gate = NoGate
    /\ ctxs = [p \in Conns |-> IdleCtx]
    /\ issued = <<>>
    /\ JwtIdle

IdNext ==
    \/ \E p \in Conns, r \in IdRequests : MwReceive(p, r, TRUE)
    \/ \E p \in Conns : EnterRequestID(p)
    \/ \E p \in Conns, sid \in ShortIDs : EnterLogRequest(p, sid)
    \/ \E p \in Conns, e \in HandlerErrors : HandlerReturns(p, e)
    \/ \E p \in Conns : LeaveRequestID(p)
    \/ \E p \in Conns : LeaveLogRequest(p)
    \/ \E p \in Conns : MwReturn(p)

IdSpec == IdInit /\ [][IdNext]_vars

(***************************************************************************)
(* C24.  The ids the RequestID middleware creates are unique within the    *)
(* process: under every interleaving of concurrent requests without an     *)
(* X-Request-Id header no two requests get the same id, and the counter    *)
(* reqID has grown by exactly one for each of them.                        *)
(***************************************************************************)
\* the request of goroutine p has been given an id RequestID created
HoldsNewID(p) ==
    /\ ctxs[p].pc # "idle"
    /\ ctxs[p].Request.Header[RequestIDHeader] = <<>>
    /\ ctxs[p].Values # <<>>

C24_RequestIDsUnique ==
    /\ reqID = Len(issued)
    /\ \A i, j \in 1..Len(issued) : i # j => issued[i] # issued[j]
    /\ \A p \in Conns : HoldsNewID(p) => \E i \in 1..Len(issued) : ctxs[p].Values = <<issued[i]>>
    /\ \A p, q \in Conns : p # q /\ HoldsNewID(p) /\ HoldsNewID(q) => ctxs[p].Values # ctxs[q].Values

\* two requests without the header are served at the same time, and each
\* holds an id of its own
C24_Witness ==
    /\ HoldsNewID(1) /\ HoldsNewID(2)
    /\ ctxs[1].Values # ctxs[2].Values
    /\ reqID = 2

(***************************************************************************)
(* C25.  When the request carries a non-empty X-Request-Id header,         *)
(* RequestID stores exactly that value under ReqIDKey before it calls the  *)
(* next handler and does not advance the counter; a new id is created only *)
(* when the header is empty or missing.                                    *)
(***************************************************************************)
\* the header of the request of goroutine p, the empty string when missing
RequestIDOf(p) ==
    IF ctxs[p].Request.Header[RequestIDHeader] = <<>> THEN EmptyStr
    ELSE ctxs[p].Request.Header[RequestIDHeader][1]

\* the counter moves only for a request without the header that enters RequestID
CounterMovesOnlyWithoutHeader ==
    reqID' # reqID =>
        \E p \in Conns :
            /\ About(p, "RequestID")
            /\ RequestIDOf(p) = EmptyStr
            /\ ctxs'[p].Values = <<NewRequestID(reqPrefix, reqID')>>

\* once RequestID is entered the context holds the header's value, and the
\* handlers called after it find it
HeaderValueStored ==
    \A p \in Conns :
        InSeq("RequestID", ctxs[p].frames) /\ RequestIDOf(p) # EmptyStr =>
            /\ ctxs[p].Values = <<RequestIDOf(p)>>
            /\ (ctxs[p].calls > 0 => ctxs[p].seen = <<RequestIDOf(p)>>)

C25_HeaderIDKept == [][CounterMovesOnlyWithoutHeader]_vars /\ []HeaderValueStored

\* a request with the header reached the handler of the application, which
\* found the header's value, while no id has been created yet
C25_Witness ==
    /\ ctxs[1].calls = 1
    /\ RequestIDOf(1) = sAbc
    /\ ctxs[1].seen = <<sAbc>>
    /\ reqID = 0

(***************************************************************************)
(* C29.  LogRequest uses the id of the RequestID middleware exactly when   *)
(* RequestID runs before it in the chain: when the context holds a value   *)
(* under ReqIDKey every log entry of the request carries it as its id;     *)
(* otherwise (RequestID absent, or mounted after LogRequest) a new short   *)
(* id is used and LogRequest leaves ReqIDKey unset.  In both orders the    *)
(* next handler is called exactly once and its error is returned as is.    *)
(***************************************************************************)
\* the position of a middleware in the chain, 0 when it is not mounted
RECURSIVE IndexFrom(_, _, _)
IndexFrom(a, x, i) ==
    IF i > Len(a) THEN 0 ELSE IF a[i] = x THEN i ELSE IndexFrom(a, x, i + 1)

RequestIDFirst ==
    /\ IndexFrom(mws, "RequestID", 1) # 0
    /\ IndexFrom(mws, "RequestID", 1) < IndexFrom(mws, "LogRequest", 1)

\* LogRequest has been entered for the request of goroutine p
Logged(p) == ctxs[p].pc # "idle" /\ ~InSeq("LogRequest", ctxs[p].todo)

C29_LogRequestUsesRequestID ==
    \A p \in Conns :
        /\ Logged(p) =>
              /\ Len(ctxs[p].Log) > 0
              /\ \A k \in 1..Len(ctxs[p].Log) : ctxs[p].Log[k].id = ctxs[p].LoggerId
              /\ (RequestIDFirst => ctxs[p].LoggerId = ctxs[p].Values)
              /\ (~RequestIDFirst =>
                     /\ \E sid \in ShortIDs : ctxs[p].LoggerId = <<sid>>
                     /\ (InSeq("RequestID", ctxs[p].todo) \/ ~InSeq("RequestID", mws)
                            => ctxs[p].Values = <<>>))
        /\ AtService(p) =>
              /\ ctxs[p].calls = 1
              /\ ctxs[p].err = ctxs[p].handlerErr
              /\ ctxs[p].Log[Len(ctxs[p].Log)].msg = "completed"

\* RequestID is mounted after LogRequest: the request got its id, and its
\* log entries carry a short id
C29_Witness ==
    /\ mws = <<"LogRequest", "RequestID">>
    /\ AtService(1)
    /\ ctxs[1].Values # <<>>
    /\ ctxs[1].LoggerId # ctxs[1].Values
    /\ Len(ctxs[1].Log) = 4
    /\ ctxs[1].err # <<>>

(***************************************************************************)
(* A service that mounts Recover and RequireHeader, and whose handler may  *)
(* panic.  goa hands every handler a context that is not nil, and a        *)
(* handler panics with a value that is not nil.                            *)
(***************************************************************************)
\* the handler of the application panics with v
HandlerPanics(p, v) ==
    /\ ctxs[p].pc = "run" /\ ctxs[p].todo = <<>>
    /\ ctxs' = [ctxs EXCEPT ![p].pc = "unwind", ![p].calls = @ + 1,
                            ![p].seen = ctxs[p].Values,
                            ![p].panic = <<v>>, ![p].thrown = <<v>>]
    /\ UNCHANGED <<mwFixed, reqID, issued>>

\* Recover, line 142: the deferred function is set up, and h(ctx) is called
EnterRecover(p) ==
    /\ About(p, "Recover")
    /\ ctxs' = [ctxs EXCEPT ![p] = Entered(@, "Recover")]
    /\ UNCHANGED <<mwFixed, reqID, issued>>

\* a variant that returns the string panicked with as the error
RecoveredErrorBare(x) ==
    CASE x.type = "string" -> NewError(x.val)
      [] x.type = "error" -> NewError(x.val)
      [] OTHER -> NewError(sUnknownPanic)

\* Recover, lines 145-152: the error for the value panicked with
RecoveredError(x) ==
    CASE x.type = "string" -> NewError(sPanicColon \o x.val)
      [] x.type = "error" -> NewError(x.val)
      [] OTHER -> NewError(sUnknownPanic)

\* Recover, lines 158-179: the body of the response
RecoverMessage(c, err) ==
    IF c.HasLogger /\ c.Values # <<>>
    THEN StatusText(StatusInternalServerError) \o sRefer \o c.Values[1]
    ELSE err.msg

\* Recover, lines 143-181: the deferred function
Recovered(c) ==
    IF c.panic = <<>> THEN c
    ELSE LET err == RecoveredError(c.panic[1])
         IN  [c EXCEPT !.err = <<err>>,
                       !.panic = <<>>,
                       !.Log = IF c.HasLogger THEN Append(@, LogEntry(c, "panic")) ELSE @,
                       !.Status = StatusInternalServerError,
                       !.Body = RecoverMessage(c, err)]

LeaveRecover(p) ==
    /\ Leaving(p, "Recover")
    /\ ctxs' = [ctxs EXCEPT ![p] = [Recovered(@) EXCEPT !.frames = Pop(@)]]
    /\ UNCHANGED <<mwFixed, reqID, issued>>

\* RequireHeader, line 242: the check applies to the path
PathIncluded(g, r) == g.pathPattern.isNil \/ MatchString(g.pathPattern, r.Path)

\* a variant that accepts every non-empty value
HeaderMatchedAnyValue(g, r) == Len(Get(r.Header, g.requiredHeaderName)) > 0

\* RequireHeader, lines 243-252: matched
HeaderMatched(g, r) ==
    LET headerValue == Get(r.Header, g.requiredHeaderName)
    IN  IF Len(headerValue) > 0
        THEN IF g.requiredHeaderValue.isNil THEN TRUE
             ELSE MatchString(g.requiredHeaderValue, headerValue)
        ELSE FALSE

\* RequireHeader, lines 242-261: h(ctx) is called, or the failure is the
\* response and the error of RespondBytes, nil once the response is written,
\* is returned
EnterRequireHeader(p) ==
    /\ About(p, "RequireHeader")
    /\ ctxs' = [ctxs EXCEPT ![p] =
           IF PathIncluded(gate, @.Request) /\ ~HeaderMatched(gate, @.Request)
           THEN [@ EXCEPT !.pc = "unwind", !.todo = <<>>, !.err = <<>>,
                          !.Status = gate.failureStatus,
                          !.Body = StatusText(gate.failureStatus)]
           ELSE Entered(@, "RequireHeader")]
    /\ UNCHANGED <<mwFixed, reqID, issued>>

\* RequireHeader, line 261: return
LeaveRequireHeader(p) ==
    /\ Leaving(p, "RequireHeader")
    /\ ctxs' = [ctxs EXCEPT ![p].frames = Pop(@)]
    /\ UNCHANGED <<mwFixed, reqID, issued>>

sSecret == <<"s","3","c","r","3","t">>
sWrong == <<"w","r","o","n","g">>

Gates ==
    { [pathPattern |-> pp, requiredHeaderName |-> sApiKey,
       requiredHeaderValue |-> rv, failureStatus |-> fs] :
        pp \in {NilRegexp, Regexp({pASub})},
        rv \in {NilRegexp, Regexp({sSecret})},
        fs \in {StatusUnauthorized, 403} }

\* the middlewares mounted and the arguments of RequireHeader
GateSetups ==
    {<<m, NoGate>> : m \in {<<"Recover">>, <<"RequestID", "Recover">>}}
    \cup {<<m, g>> : m \in {<<"RequireHeader">>, <<"Recover", "RequireHeader">>},
                     g \in Gates}

GateRequests ==
    { NewMwRequest(path, id, key, FALSE, FALSE) :
        path \in {pRoot, pASub}, id \in {EmptyStr, sAbc}, key \in {EmptyStr, sSecret, sWrong} }

GateInit ==
    /\ spec = <<>>
    /\ ServiceIdle
    /\ ConcIdle
    /\ reqPrefix = sPrefix
    /\ reqID = 0
    /\ \E setup \in GateSetups : mws = setup[1] /\ gate = setup[2]
    /\ ctxs = [p \in Conns |-> IdleCtx]
    /\ issued = <<>>
    /\ JwtIdle

GateNext ==
    \/ \E r \in GateRequests, logger \in BOOLEAN : MwReceive(1, r, logger)
    \/ EnterRequestID(1)
    \/ EnterRecover(1)
    \/ EnterRequireHeader(1)
    \/ \E e \in HandlerErrors : HandlerReturns(1, e)
    \/ \E v \in PanicValues : HandlerPanics(1, v)
    \/ LeaveRequestID(1)
    \/ LeaveRecover(1)
    \/ LeaveRequireHeader(1)
    \/ MwReturn(1)

GateSpec == GateInit /\ [][GateNext]_vars

(***************************************************************************)
(* C23.  RequireHeader calls the next handler if and only if pathPattern   *)
(* is not nil and the path does not match it, or the required header is    *)
(* non-empty and requiredHeaderValue is nil or matches its value.  In      *)
(* every other case it responds with failureStatus, does not call the next *)
(* handler and returns no error.  A nil pathPattern applies the check to   *)
(* every path.                                                             *)
(***************************************************************************)
\* RequireHeader has decided about the request of the goroutine
Gated == ctxs[1].pc # "idle" /\ InSeq("RequireHeader", mws) /\ ~InSeq("RequireHeader", ctxs[1].todo)

\* the value of the required header, the empty string when it is missing
RequiredValue ==
    IF ctxs[1].Request.Header[gate.requiredHeaderName] = <<>> THEN EmptyStr
    ELSE ctxs[1].Request.Header[gate.requiredHeaderName][1]

\* the cases in which the claim has the next handler called
MayPass ==
    \/ ~gate.pathPattern.isNil /\ ctxs[1].Request.Path \notin gate.pathPattern.matches
    \/ /\ RequiredValue # EmptyStr
       /\ gate.requiredHeaderValue.isNil \/ RequiredValue \in gate.requiredHeaderValue.matches

C23_RequireHeaderGate ==
    Gated =>
        /\ (ctxs[1].pc = "run" => MayPass)
        /\ (ctxs[1].calls > 0 => MayPass)
        /\ (ctxs[1].pc = "unwind" /\ MayPass => ctxs[1].calls = 1)
        /\ (ctxs[1].pc = "unwind" /\ ~MayPass =>
               /\ ctxs[1].calls = 0
               /\ ctxs[1].Status = gate.failureStatus
               /\ ctxs[1].err = <<>>
               /\ ctxs[1].panic = <<>>)

\* the header has a value the pattern does not match, on a path every
\* pattern includes: the failure status is the response
C23_Witness ==
    /\ Gated /\ AtService(1)
    /\ gate.pathPattern.isNil
    /\ RequiredValue = sWrong
    /\ ctxs[1].Status = 403
    /\ ctxs[1].calls = 0

(***************************************************************************)
(* C26.  Recover never lets a panic of the next handler reach its caller.  *)
(* When the handler panics with a string s the wrapped handler returns the *)
(* error "panic: s", when it panics with an error it returns that error,   *)
(* and for any other value it returns "unknown panic"; in each case the    *)
(* error is not nil and an Internal Server Error (500) response is         *)
(* written.                                                                *)
(***************************************************************************)
\* the handler of Recover has returned for a request whose handler panicked
RecoverReturned ==
    /\ ctxs[1].pc = "unwind"
    /\ InSeq("Recover", mws) /\ ~InSeq("Recover", ctxs[1].frames)
    /\ ctxs[1].thrown # <<>>

\* the message of the error the claim names for a value panicked with
ClaimedMessage(x) ==
    IF x.type = "string" THEN sPanicColon \o x.val
    ELSE IF x.type = "error" THEN x.val
    ELSE sUnknownPanic

C26_RecoverReturnsError ==
    /\ (AtService(1) /\ InSeq("Recover", mws) => ctxs[1].panic = <<>>)
    /\ (RecoverReturned =>
           /\ ctxs[1].panic = <<>>
           /\ ctxs[1].err # <<>>
           /\ ctxs[1].err = <<NewError(ClaimedMessage(ctxs[1].thrown[1]))>>
           /\ ctxs[1].Status = StatusInternalServerError)

\* the handler panicked with a string, and the caller of Recover gets the
\* error and the response that refers to the request id
C26_Witness ==
    /\ RecoverReturned /\ AtService(1)
    /\ ctxs[1].thrown[1].type = "string"
    /\ ctxs[1].err = <<NewError(sPanicColon \o sBoom)>>
    /\ ctxs[1].Status = StatusInternalServerError
    /\ ctxs[1].Body = StatusText(StatusInternalServerError) \o sRefer \o sAbc

(***************************************************************************)
(* Package jwt: GetToken and Middleware.  jwt.Parse is the library's: it   *)
(* is the table ParseToken over the tokens the requests carry, with every  *)
(* combination of token and error its signature allows.                    *)
(***************************************************************************)
sBearer == <<"b","e","a","r","e","r">>
sSpace == " "
sMalformed == <<"M","a","l","f","o","r","m","e","d"," ","t","o","k","e","n"," ","h","e","a","d","e","r">>
sNoToken == <<"n","o"," ","t","o","k","e","n">>
sInvalidToken == <<"I","n","v","a","l","i","d"," ","T","o","k","e","n">>
sExpired == <<"t","o","k","e","n"," ","i","s"," ","e","x","p","i","r","e","d">>
sSegments == <<"t","o","k","e","n"," ","c","o","n","t","a","i","n","s"," ","a","n"," ","i","n","v","a","l","i","d"," ","n","u","m","b","e","r"," ","o","f"," ","s","e","g","m","e","n","t","s">>

tGood == <<"g","o","o","d">>
tOld == <<"o","l","d">>
tUnverified == <<"u","n","v","e","r","i","f","i","e","d">>
tGarbage == <<"g","a","r","b","a","g","e">>

\* jwt.Parse(tok, keyFuncWrapper(spec.ValidationFunc))
ParseToken(tok) ==
    CASE tok = tGood -> [token |-> <<[Raw |-> tok, Valid |-> TRUE]>>, err |-> <<>>]
      [] tok = tOld -> [token |-> <<[Raw |-> tok, Valid |-> FALSE]>>,
                        err |-> <<NewError(sExpired)>>]
      [] tok = tUnverified -> [token |-> <<[Raw |-> tok, Valid |-> FALSE]>>, err |-> <<>>]
      [] OTHER -> [token |-> <<>>, err |-> <<NewError(sSegments)>>]

\* a variant that compares the scheme letter for letter
BearerPartsExact(parts) == Len(parts) = 2 /\ parts[1] = sBearer

\* GetToken, line 126: two parts, the first one "bearer" in any case
BearerParts(parts) == Len(parts) = 2 /\ ToLower(parts[1]) = sBearer

\* GetToken, lines 119-142
GetToken(r, sp) ==
    LET header == Get(r.Header, sp.TokenHeader)
        parts  == Split(header, sSpace)
        found  == header # EmptyStr
        tok    == IF found THEN parts[2]
                  ELSE IF sp.AllowParam THEN Get(r.Query, sp.TokenParam)
                  ELSE EmptyStr
    IN  IF found /\ ~BearerParts(parts)
        THEN [token |-> <<>>, err |-> <<NewError(sMalformed)>>]
        ELSE IF tok = EmptyStr
        THEN [token |-> <<>>, err |-> <<NewError(sNoToken)>>]
        ELSE ParseToken(tok)

\* Middleware, lines 149-154: the defaults are written into the Specification
WithDefaults(sp) ==
    [sp EXCEPT !.TokenHeader = IF @ = "" THEN JWTHeader ELSE @,
               !.TokenParam = IF @ = "" THEN sTokenParam ELSE @]

\* a variant that lets every OPTIONS request through
ExemptAnyOptions(sp, r) == r.Method = mOPTIONS

\* Middleware, line 159
Exempt(sp, r) == ~sp.AuthOptions /\ r.Method = mOPTIONS

\* goa.Response(ctx).Send(status, body): the response is written, and the
\* error returned is nil
Send(res, status, body) ==
    [res EXCEPT !.pc = "done", !.Status = status, !.Body = body, !.err = <<>>]

\* Middleware, lines 159-171: the handler up to its call of h
JwtHandled(sp, r, res) ==
    IF Exempt(sp, r) THEN [res EXCEPT !.pc = "next"]
    ELSE LET got == GetToken(r, sp)
         IN  IF got.err # <<>>
             THEN Send([res EXCEPT !.extracted = got],
                       StatusUnauthorized, StatusText(StatusUnauthorized))
             ELSE IF ~got.token[1].Valid
             THEN Send([res EXCEPT !.extracted = got], StatusUnauthorized, sInvalidToken)
             ELSE [res EXCEPT !.extracted = got, !.pc = "next", !.ctxToken = got.token]

JwtSpecifications ==
    { NewJwtSpecification(th, "", ap, ao) :
        th \in {"", sXToken}, ap \in BOOLEAN, ao \in BOOLEAN }

\* the values of the token header
JwtHeaderValues ==
    { EmptyStr,
      sBearer \o <<sSpace>> \o tGood,
      <<"B","e","a","r","e","r">> \o <<sSpace>> \o tGood,
      sBearer \o <<sSpace>> \o tOld,
      sBearer \o <<sSpace>> \o tUnverified,
      sBearer \o <<sSpace>> \o tGarbage,
      sBearer \o <<sSpace>>,
      sBearer \o <<sSpace>> \o tGood \o <<sSpace>> \o tGood,
      <<"b","a","s","i","c">> \o <<sSpace>> \o tGood,
      tGood }

JwtRequests ==
    { NewJwtRequest(m, k, h, q) :
        m \in {mGET, mOPTIONS}, k \in JwtHeaderKeys, h \in JwtHeaderValues,
        q \in {EmptyStr, tGood, tOld} }

JwtInit ==
    /\ spec = <<>>
    /\ ServiceIdle
    /\ ConcIdle
    /\ MwIdle
    /\ signingmethods = SigningMethodsTable
    /\ jspec \in JwtSpecifications
    /\ jreq = NewJwtRequest(EmptyStr, JWTHeader, EmptyStr, EmptyStr)
    /\ jres = JwtNew

\* the variables package jwt leaves alone
jwtFixed == <<spec, serviceVars, inflight, mwVars, signingmethods>>

\* Middleware(spec): the middleware is created
JwtMiddleware ==
    /\ jres.pc = "new"
    /\ jspec' = WithDefaults(jspec)
    /\ jres' = [jres EXCEPT !.pc = "ready"]
    /\ UNCHANGED <<jwtFixed, jreq>>

\* a request arrives
JwtReceive(r) ==
    /\ jres.pc = "ready"
    /\ jreq' = r
    /\ jres' = [JwtNew EXCEPT !.pc = "handling"]
    /\ UNCHANGED <<jwtFixed, jspec>>

\* the handler runs up to its call of h, or to its response
JwtHandle ==
    /\ jres.pc = "handling"
    /\ jres' = JwtHandled(jspec, jreq, jres)
    /\ UNCHANGED <<jwtFixed, jspec, jreq>>

\* the next handler runs with the context it is passed, and its error is returned
JwtNextHandler(e) ==
    /\ jres.pc = "next"
    /\ jres' = [jres EXCEPT !.pc = "done", !.called = @ + 1, !.err = e,
                            !.Status = IF e = <<>> THEN StatusOK ELSE @]
    /\ UNCHANGED <<jwtFixed, jspec, jreq>>

\* the request is over
JwtFinish ==
    /\ jres.pc = "done"
    /\ jres' = [JwtNew EXCEPT !.pc = "ready"]
    /\ jreq' = NewJwtRequest(EmptyStr, JWTHeader, EmptyStr, EmptyStr)
    /\ UNCHANGED <<jwtFixed, jspec>>

JwtNext ==
    \/ JwtMiddleware
    \/ \E r \in JwtRequests : JwtReceive(r)
    \/ JwtHandle
    \/ \E e \in HandlerErrors : JwtNextHandler(e)
    \/ JwtFinish

JwtSpec == JwtInit /\ [][JwtNext]_vars

(***************************************************************************)
(* C27.  The JWT middleware calls the next handler if and only if the      *)
(* request is an exempt OPTIONS request (method OPTIONS while AuthOptions   *)
(* is false) or a token was extracted from the request and is valid.  When *)
(* it calls the handler for a validated token the context it passes holds  *)
(* that token under JWTKey.  In every other case it responds 401           *)
(* Unauthorized, does not call the next handler and returns no error.      *)
(***************************************************************************)
ExemptOptions == jreq.Method = mOPTIONS /\ ~jspec.AuthOptions

\* a token was extracted from the request and is valid
ValidToken ==
    LET got == GetToken(jreq, jspec)
    IN  got.err = <<>> /\ got.token # <<>> /\ got.token[1].Valid

C27_JwtGate ==
    /\ jres.called <= 1
    /\ (jres.pc = "next" => ExemptOptions \/ ValidToken)
    /\ (jres.pc = "done" => (jres.called = 1 <=> ExemptOptions \/ ValidToken))
    /\ (jres.pc \in {"next", "done"} /\ ~ExemptOptions /\ ValidToken =>
           jres.ctxToken = GetToken(jreq, jspec).token)
    /\ (jres.pc = "done" /\ ~(ExemptOptions \/ ValidToken) =>
           /\ jres.Status = StatusUnauthorized
           /\ jres.called = 0
           /\ jres.ctxToken = <<>>
           /\ jres.err = <<>>)

\* a GET request with a valid token in the header reached the handler,
\* which found the token in its context
C27_Witness ==
    /\ jres.pc = "done"
    /\ jreq.Method = mGET
    /\ jres.called = 1
    /\ jres.ctxToken = <<[Raw |-> tGood, Valid |-> TRUE]>>
    /\ jres.Status = StatusOK

(***************************************************************************)
(* C28.  GetToken checks the token header first and the query string       *)
(* second.  The query parameter is read only when the token header is      *)
(* empty and AllowParam is true; with AllowParam false a token that is     *)
(* only in the query string is never accepted; a non-empty header that is  *)
(* not of the form "bearer <token>" (two parts separated by a space, the   *)
(* scheme compared without regard to case) gives an error with no fall     *)
(* back to the query string, even when that holds a valid token.           *)
(***************************************************************************)
\* the number of spaces of a string, and its parts before and after the first one
RECURSIVE CountSpaces(_)
CountSpaces(str) ==
    IF str = <<>> THEN 0
    ELSE (IF Head(str) = sSpace THEN 1 ELSE 0) + CountSpaces(Tail(str))

FirstSpace(str) == CHOOSE i \in 1..Len(str) : str[i] = sSpace /\ \A k \in 1..(i - 1) : str[k] # sSpace

Scheme(str) == SubSeq(str, 1, FirstSpace(str) - 1)
BearerToken(str) == SubSeq(str, FirstSpace(str) + 1, Len(str))

\* "bearer <token>"
IsBearer(str) == CountSpaces(str) = 1 /\ ToLower(Scheme(str)) = sBearer

\* what the claim has GetToken return for a token text
TokenOf(tok) ==
    IF tok = EmptyStr THEN [token |-> <<>>, err |-> <<NewError(sNoToken)>>] ELSE ParseToken(tok)

\* GetToken has run for the request
Extracted == jres.pc \in {"next", "done"} /\ ~Exempt(jspec, jreq)

C28_HeaderBeforeQuery ==
    Extracted =>
        LET h == IF jreq.Header[jspec.TokenHeader] = <<>> THEN EmptyStr
                 ELSE jreq.Header[jspec.TokenHeader][1]
            q == IF jreq.Query[jspec.TokenParam] = <<>> THEN EmptyStr
                 ELSE jreq.Query[jspec.TokenParam][1]
        IN  jres.extracted =
                IF h # EmptyStr
                THEN IF IsBearer(h) THEN TokenOf(BearerToken(h))
                     ELSE [token |-> <<>>, err |-> <<NewError(sMalformed)>>]
                ELSE IF jspec.AllowParam THEN TokenOf(q)
                ELSE [token |-> <<>>, err |-> <<NewError(sNoToken)>>]

\* the header is not a bearer header and the query string holds a valid
\* token that may be read: the request is refused
C28_Witness ==
    /\ jres.pc = "done"
    /\ jspec.AllowParam
    /\ jreq.Query[sTokenParam] = <<tGood>>
    /\ jreq.Header[jspec.TokenHeader] # <<>>
    /\ ~IsBearer(jreq.Header[jspec.TokenHeader][1])
    /\ jres.extracted.err = <<NewError(sMalformed)>>
    /\ jres.called = 0
    /\ jres.Status = StatusUnauthorized

(***************************************************************************)
(* C30.  The table of the signing methods maps each of the nine            *)
(* SigningMethod constants to the JWT algorithm its name denotes (RSA384   *)
(* to RS384, and so on), so no two signing methods select the same         *)
(* algorithm.                                                              *)
(***************************************************************************)
\* the algorithm the name of a signing method denotes
DenotedAlgorithm(m) ==
    CASE m = RSA256 -> "RS256" [] m = RSA384 -> "RS384" [] m = RSA512 -> "RS512"
      [] m = HMAC256 -> "HS256" [] m = HMAC384 -> "HS384" [] m = HMAC512 -> "HS512"
      [] m = ECDSA256 -> "ES256" [] m = ECDSA384 -> "ES384" [] m = ECDSA512 -> "ES512"

C30_SigningMethodsInjective ==
    /\ DOMAIN signingmethods = SigningMethods
    /\ \A m \in SigningMethods : signingmethods[m] = DenotedAlgorithm(m)
    /\ \A m, n \in SigningMethods : m # n => signingmethods[m] # signingmethods[n]

====
